---- MODULE Spec2Model ----
(***************************************************************************)
(* State-machine model of the stored-procedure batch processor:            *)
(*   - ConnectionPool / DatabaseManager.get_connection                     *)
(*       (src/src/database_manager.py)                                     *)
(*   - StoredProcedureExecutor.execute_stored_procedure                    *)
(*       (src/src/sp_executor.py)                                          *)
(*   - MainProcessor._process_single_sp and the batch loops                *)
(*       (src/src/main_processor.py)                                       *)
(*   - DatabaseManager.get_sp_definition, the connection-string parser,    *)
(*     the signature analysis and JsonProcessor                            *)
(*       (src/src/database_manager.py, sp_executor.py, json_processor.py)  *)
(* The specifications SpecPool, SpecExec (SpecExecLive with fairness),     *)
(* SpecItem, SpecBatch, SpecFlow, SpecFetch, SpecConn, SpecSig, SpecJson,  *)
(* SpecTemplate, SpecSigBody, SpecNormalize and SpecPatterns share the     *)
(* module.  Each one leaves the variables of the others untouched.         *)
(***************************************************************************)
EXTENDS Integers, Sequences, FiniteSets, TLC

VARIABLES _pool, _created_connections, conn_state, decrements, next_id, scopes, t_pc, t_conn, t_out, t_exc, t_deq

VARIABLES e_pc, attempt, attempts, script, analysis, driver_sets, exception, envelope, slept

VARIABLES p_pc, p_kind, p_templates, p_env, input_json, output_json, file_futures, files, result

VARIABLES b_pc, sp_list, parallel_processing, continue_on_error, max_workers, i_state, i_call, results, cur, summary

pool_vars == <<_pool, _created_connections, conn_state, decrements, next_id, scopes, t_pc, t_conn, t_out, t_exc, t_deq>>

exec_vars == <<e_pc, attempt, attempts, script, analysis, driver_sets, exception, envelope, slept>>

item_vars == <<p_pc, p_kind, p_templates, p_env, input_json, output_json, file_futures, files, result>>

batch_vars == <<b_pc, sp_list, parallel_processing, continue_on_error, max_workers, i_state, i_call, results, cur, summary>>

\* The single calls checked on their own: get_sp_definition (sp_name, g_pc,
\* queries), and the pure functions, whose input is u_in, whose result is
\* u_out and whose position is u_pc.
VARIABLES sp_name, g_pc, queries, u_pc, u_in, u_out

unit_vars == <<sp_name, g_pc, queries, u_pc, u_in, u_out>>

vars == <<pool_vars, exec_vars, item_vars, batch_vars, unit_vars>>

UnitOff ==
    /\ sp_name = <<>>
    /\ g_pc = "off"
    /\ queries = <<>>
    /\ u_pc = "off"
    /\ u_in = <<>>
    /\ u_out = <<>>

\* Each specification runs one component; the variables of the others rest.
PoolOff ==
    /\ _pool = <<>>
    /\ _created_connections = 0
    /\ conn_state = <<>>
    /\ decrements = <<>>
    /\ next_id = 0
    /\ scopes = 0
    /\ t_pc = <<>>
    /\ t_conn = <<>>
    /\ t_out = <<>>
    /\ t_exc = <<>>
    /\ t_deq = <<>>

ExecOff ==
    /\ e_pc = "off"
    /\ attempt = 0
    /\ attempts = 0
    /\ script = <<>>
    /\ analysis = "off"
    /\ driver_sets = 0
    /\ exception = "off"
    /\ envelope = "off"
    /\ slept = 0

ItemOff ==
    /\ p_pc = "off"
    /\ p_kind = "off"
    /\ p_templates = FALSE
    /\ p_env = "off"
    /\ input_json = "off"
    /\ output_json = "off"
    /\ file_futures = <<>>
    /\ files = {}
    /\ result = "off"

BatchOff ==
    /\ b_pc = "off"
    /\ sp_list = <<>>
    /\ parallel_processing = FALSE
    /\ continue_on_error = FALSE
    /\ max_workers = 0
    /\ i_state = <<>>
    /\ i_call = <<>>
    /\ results = <<>>
    /\ cur = 0
    /\ summary = "off"

(***************************************************************************)
(* Bounds of the pool model.  pool_size and max_overflow are constructor   *)
(* arguments of ConnectionPool; the model runs the pool at a small size so *)
(* that exhaustion and a full queue are met by few threads.                *)
(***************************************************************************)
PoolSize == 1

MaxOverflow == 0

NumThreads == 2

MaxScopes == 3

Threads == 1..NumThreads

\* Connection handles: a fresh one per successful pyodbc.connect.  A scope
\* connects at most twice (on Empty, and to replace an invalid connection).
MaxIds == PoolSize + 2 * MaxScopes

ConnIds == 1..MaxIds

\* None of Python: no connection bound to `conn`.
NoConn == 0

\* pool_size + max_overflow: the queue's maxsize and the creation ceiling.
Capacity == PoolSize + MaxOverflow

(***************************************************************************)
(* ConnectionPool._create_connection, the part under self._lock.           *)
(* TRUE when the ceiling check lets the caller count one more connection.  *)
(***************************************************************************)
create_allowed_off_by_one(created) == created <= Capacity

create_allowed(created) == created < Capacity

(***************************************************************************)
(* ConnectionPool._is_connection_valid: the probe raises, and the method   *)
(* returns False, on a closed handle; on an open handle the probe query    *)
(* succeeds or fails as the server decides.                                *)
(***************************************************************************)
probe_results(c) == IF conn_state[c] = "open" THEN {TRUE, FALSE} ELSE {FALSE}

\* conn.close(): the handle is closed whatever it was; a second close raises
\* inside pyodbc and every caller here swallows it.
closed(c) == [conn_state EXCEPT ![c] = "closed"]

\* The `except Exception` clause of get_connection decrements the counter
\* once when a connection is bound.
except_decrement(created) == created - 1

\* The release in the `finally` clause of get_connection: how far the counter
\* drops when the connection is not put back.
finally_decrement(created) == created - 1

(***************************************************************************)
(* ConnectionPool.__init__: pre-population.  j connections were created    *)
(* and queued; when j < pool_size the (j+1)-th pyodbc.connect raised after *)
(* the counter had been incremented, and the loop stopped.                 *)
(***************************************************************************)
PoolInit ==
    \E j \in 0..PoolSize :
        /\ _pool = [i \in 1..j |-> i]
        /\ _created_connections = IF j = PoolSize THEN j ELSE j + 1
        /\ conn_state = [c \in ConnIds |-> IF c <= j THEN "open" ELSE "none"]
        /\ decrements = [c \in ConnIds |-> 0]
        /\ next_id = j + 1
        /\ scopes = 0
        /\ t_pc = [t \in Threads |-> "idle"]
        /\ t_conn = [t \in Threads |-> NoConn]
        /\ t_out = [t \in Threads |-> {}]
        /\ t_exc = [t \in Threads |-> "none"]
        /\ t_deq = [t \in Threads |-> NoConn]

\* A caller opens a `with pool.get_connection()` scope: conn = None.
EnterScope(t) ==
    /\ t_pc[t] = "idle"
    /\ scopes < MaxScopes
    /\ scopes' = scopes + 1
    /\ t_pc' = [t_pc EXCEPT ![t] = "get"]
    /\ t_conn' = [t_conn EXCEPT ![t] = NoConn]
    /\ t_out' = [t_out EXCEPT ![t] = {}]
    /\ t_exc' = [t_exc EXCEPT ![t] = "none"]
    /\ t_deq' = [t_deq EXCEPT ![t] = NoConn]
    /\ UNCHANGED <<_pool, _created_connections, conn_state, decrements, next_id>>
    /\ UNCHANGED <<exec_vars, item_vars, batch_vars, unit_vars>>

\* self._pool.get(timeout=30) returns the head of the queue.
PoolGet(t) ==
    /\ t_pc[t] = "get"
    /\ _pool # <<>>
    /\ t_conn' = [t_conn EXCEPT ![t] = Head(_pool)]
    /\ t_out' = [t_out EXCEPT ![t] = {Head(_pool)}]
    /\ t_deq' = [t_deq EXCEPT ![t] = Head(_pool)]
    /\ _pool' = Tail(_pool)
    /\ t_pc' = [t_pc EXCEPT ![t] = "probe"]
    /\ UNCHANGED <<_created_connections, conn_state, decrements, next_id, scopes, t_exc>>
    /\ UNCHANGED <<exec_vars, item_vars, batch_vars, unit_vars>>

\* self._pool.get(timeout=30) raises queue.Empty: the queue stayed empty.
PoolGetEmpty(t) ==
    /\ t_pc[t] = "get"
    /\ _pool = <<>>
    /\ t_pc' = [t_pc EXCEPT ![t] = "create1"]
    /\ UNCHANGED <<_pool, _created_connections, conn_state, decrements, next_id, scopes, t_conn, t_out, t_exc>>
    /\ UNCHANGED t_deq
    /\ UNCHANGED <<exec_vars, item_vars, batch_vars, unit_vars>>

\* _create_connection, under the lock: raise "Connection pool exhausted" or
\* count the connection about to be opened.
CreateLocked(t) ==
    /\ t_pc[t] \in {"create1", "create2"}
    /\ IF create_allowed(_created_connections)
       THEN /\ _created_connections' = _created_connections + 1
            /\ t_pc' = [t_pc EXCEPT ![t] = IF t_pc[t] = "create1" THEN "connect1" ELSE "connect2"]
            /\ t_exc' = t_exc
       ELSE /\ _created_connections' = _created_connections
            /\ t_pc' = [t_pc EXCEPT ![t] = "except"]
            /\ t_exc' = [t_exc EXCEPT ![t] = "exhausted"]
    /\ UNCHANGED <<_pool, conn_state, decrements, next_id, scopes, t_conn, t_out>>
    /\ UNCHANGED t_deq
    /\ UNCHANGED <<exec_vars, item_vars, batch_vars, unit_vars>>

\* _create_connection, after the lock: pyodbc.connect returns a new handle,
\* which is bound to conn; the first creation goes on to the probe, the
\* replacement is yielded as it is.
ConnectOk(t) ==
    /\ t_pc[t] \in {"connect1", "connect2"}
    /\ next_id \in ConnIds
    /\ conn_state' = [conn_state EXCEPT ![next_id] = "open"]
    /\ t_conn' = [t_conn EXCEPT ![t] = next_id]
    /\ t_out' = [t_out EXCEPT ![t] = @ \cup {next_id}]
    /\ next_id' = next_id + 1
    /\ t_pc' = [t_pc EXCEPT ![t] = IF t_pc[t] = "connect1" THEN "probe" ELSE "body"]
    /\ UNCHANGED <<_pool, _created_connections, decrements, scopes, t_exc>>
    /\ UNCHANGED t_deq
    /\ UNCHANGED <<exec_vars, item_vars, batch_vars, unit_vars>>

\* _create_connection, after the lock: pyodbc.connect raises.  conn keeps
\* what it was bound to (None, or the closed connection being replaced).
ConnectFail(t) ==
    /\ t_pc[t] \in {"connect1", "connect2"}
    /\ t_pc' = [t_pc EXCEPT ![t] = "except"]
    /\ t_exc' = [t_exc EXCEPT ![t] = "connect"]
    /\ UNCHANGED <<_pool, _created_connections, conn_state, decrements, next_id, scopes, t_conn, t_out>>
    /\ UNCHANGED t_deq
    /\ UNCHANGED <<exec_vars, item_vars, batch_vars, unit_vars>>

\* The probe with the replacement left out: the closed connection is
\* yielded.
ProbeWithoutReplacement(t) ==
    /\ t_pc[t] = "probe"
    /\ \E valid \in probe_results(t_conn[t]) :
        /\ t_pc' = [t_pc EXCEPT ![t] = "body"]
        /\ conn_state' = IF valid THEN conn_state ELSE closed(t_conn[t])
    /\ UNCHANGED <<_pool, _created_connections, decrements, next_id, scopes, t_conn, t_out, t_exc>>
    /\ UNCHANGED t_deq
    /\ UNCHANGED <<exec_vars, item_vars, batch_vars, unit_vars>>

\* `if not self._is_connection_valid(conn): conn.close(); conn = create`.
Probe(t) ==
    /\ t_pc[t] = "probe"
    /\ \E valid \in probe_results(t_conn[t]) :
        IF valid
        THEN /\ t_pc' = [t_pc EXCEPT ![t] = "body"]
             /\ conn_state' = conn_state
        ELSE /\ t_pc' = [t_pc EXCEPT ![t] = "create2"]
             /\ conn_state' = closed(t_conn[t])
    /\ UNCHANGED <<_pool, _created_connections, decrements, next_id, scopes, t_conn, t_out, t_exc>>
    /\ UNCHANGED t_deq
    /\ UNCHANGED <<exec_vars, item_vars, batch_vars, unit_vars>>

\* `yield conn`: the caller's block (DatabaseManager.get_connection sets the
\* timeout and yields to its own caller) ends normally.
BodyReturn(t) ==
    /\ t_pc[t] = "body"
    /\ t_pc' = [t_pc EXCEPT ![t] = "finally"]
    /\ UNCHANGED <<_pool, _created_connections, conn_state, decrements, next_id, scopes, t_conn, t_out, t_exc>>
    /\ UNCHANGED t_deq
    /\ UNCHANGED <<exec_vars, item_vars, batch_vars, unit_vars>>

\* `yield conn`: the caller's block raises; contextmanager throws the
\* exception into the generator at the yield.
BodyRaise(t) ==
    /\ t_pc[t] = "body"
    /\ t_pc' = [t_pc EXCEPT ![t] = "except"]
    /\ t_exc' = [t_exc EXCEPT ![t] = "body"]
    /\ UNCHANGED <<_pool, _created_connections, conn_state, decrements, next_id, scopes, t_conn, t_out>>
    /\ UNCHANGED t_deq
    /\ UNCHANGED <<exec_vars, item_vars, batch_vars, unit_vars>>

\* `except Exception as e:` close the bound connection, decrement, re-raise.
ExceptClause(t) ==
    /\ t_pc[t] = "except"
    /\ IF t_conn[t] # NoConn
       THEN /\ conn_state' = closed(t_conn[t])
            /\ _created_connections' = except_decrement(_created_connections)
            /\ decrements' = [decrements EXCEPT ![t_conn[t]] = @ + (_created_connections - except_decrement(_created_connections))]
       ELSE UNCHANGED <<conn_state, _created_connections, decrements>>
    /\ t_pc' = [t_pc EXCEPT ![t] = "finally"]
    /\ UNCHANGED <<_pool, next_id, scopes, t_conn, t_out, t_exc>>
    /\ UNCHANGED t_deq
    /\ UNCHANGED <<exec_vars, item_vars, batch_vars, unit_vars>>

\* `finally:` with no connection bound nothing is done; a valid connection
\* is put back (put_nowait), or queue.Full is raised; an invalid one is
\* closed and the counter decremented (also through the bare `except:` when
\* the close of an already closed handle raises).
FinallyClause(t) ==
    /\ t_pc[t] = "finally"
    /\ IF t_conn[t] = NoConn
       THEN /\ t_pc' = [t_pc EXCEPT ![t] = "idle"]
            /\ UNCHANGED <<_pool, _created_connections, conn_state, decrements>>
       ELSE \E valid \in probe_results(t_conn[t]) :
            IF valid
            THEN IF Len(_pool) < Capacity
                 THEN /\ _pool' = Append(_pool, t_conn[t])
                      /\ t_pc' = [t_pc EXCEPT ![t] = "idle"]
                      /\ UNCHANGED <<_created_connections, conn_state, decrements>>
                 ELSE /\ t_pc' = [t_pc EXCEPT ![t] = "full"]
                      /\ UNCHANGED <<_pool, _created_connections, conn_state, decrements>>
            ELSE /\ conn_state' = closed(t_conn[t])
                 /\ _created_connections' = finally_decrement(_created_connections)
                 /\ decrements' = [decrements EXCEPT ![t_conn[t]] = @ + (_created_connections - finally_decrement(_created_connections))]
                 /\ t_pc' = [t_pc EXCEPT ![t] = "idle"]
                 /\ _pool' = _pool
    /\ UNCHANGED <<next_id, scopes, t_conn, t_out, t_exc>>
    /\ UNCHANGED t_deq
    /\ UNCHANGED <<exec_vars, item_vars, batch_vars, unit_vars>>

\* `except queue.Full:` close the connection and decrement the counter.
QueueFullClause(t) ==
    /\ t_pc[t] = "full"
    /\ conn_state' = closed(t_conn[t])
    /\ _created_connections' = finally_decrement(_created_connections)
    /\ decrements' = [decrements EXCEPT ![t_conn[t]] = @ + (_created_connections - finally_decrement(_created_connections))]
    /\ t_pc' = [t_pc EXCEPT ![t] = "idle"]
    /\ UNCHANGED <<_pool, next_id, scopes, t_conn, t_out, t_exc>>
    /\ UNCHANGED t_deq
    /\ UNCHANGED <<exec_vars, item_vars, batch_vars, unit_vars>>

PoolNext ==
    \E t \in Threads :
        \/ EnterScope(t)
        \/ PoolGet(t)
        \/ PoolGetEmpty(t)
        \/ CreateLocked(t)
        \/ ConnectOk(t)
        \/ ConnectFail(t)
        \/ Probe(t)
        \/ BodyReturn(t)
        \/ BodyRaise(t)
        \/ ExceptClause(t)
        \/ FinallyClause(t)
        \/ QueueFullClause(t)

InitPool == PoolInit /\ ExecOff /\ ItemOff /\ BatchOff /\ UnitOff

SpecPool == InitPool /\ [][PoolNext]_vars

(***************************************************************************)
(* StoredProcedureExecutor.execute_stored_procedure (sp_executor.py).      *)
(*                                                                         *)
(* An error is a record [cls, cues]: the Python class that is raised and   *)
(* the keyword cues its lower-cased message contains.  A message that      *)
(* contains "permission denied" contains "permission", and so on.          *)
(***************************************************************************)
max_retries == 3

retry_delay == 1

MaxResultSets == 2

Messages == { {}, {"timeout"}, {"connection"}, {"permission", "permission denied"}, {"syntax", "syntax error"}, {"permission"} }

\* What the database layer does when a procedure is executed: pyodbc.Error
\* from the driver (cursor.execute, pyodbc.connect), or the plain Exception
\* of the pool ("Connection pool exhausted").
DbErrors == [cls : {"pyodbc.Error", "Exception"}, cues : Messages]

Ok == [cls |-> "ok", cues |-> {}]

Outcomes == {Ok} \cup DbErrors

\* int() of a non-numeric precision in _parse_parameter_type raises
\* ValueError("invalid literal for int() with base 10: '<text>'"); the text
\* comes from the procedure source and may carry further cues.
AnalysisErrors == [cls : {"ValueError"}, cues : { {"invalid"}, {"invalid", "timeout"}, {"invalid", "permission"} }]

\* _analyze_sp_signature on the given source: a signature without or with
\* output parameters, or the error it raises.
Analyses == {[cls |-> "simple", cues |-> {}], [cls |-> "output", cues |-> {}]} \cup AnalysisErrors

\* The classes caught by `except Exception` and not by an earlier clause.
ExceptionClasses == {"pyodbc.Error", "Exception", "DatabaseConnectionError", "ValueError"}

NoException == [cls |-> "none", cues |-> {}]

NoEnvelope == [Pending |-> TRUE]

Has(e, cue) == cue \in e.cues

\* StoredProcedureExecutor._categorize_pyodbc_error
_categorize_pyodbc_error(e) ==
    IF Has(e, "timeout") \/ Has(e, "query timeout") THEN "TIMEOUT"
    ELSE IF Has(e, "permission denied") \/ Has(e, "access denied") THEN "PERMISSION"
    ELSE IF Has(e, "syntax error") \/ Has(e, "invalid syntax") THEN "SYNTAX"
    ELSE IF Has(e, "connection") \/ Has(e, "network") THEN "CONNECTION"
    ELSE "DATABASE_ERROR"

\* StoredProcedureExecutor._categorize_error
_categorize_error(e) ==
    IF e.cls = "pyodbc.Error" THEN _categorize_pyodbc_error(e)
    ELSE IF Has(e, "timeout") \/ Has(e, "timed out") THEN "TIMEOUT"
    ELSE IF Has(e, "connection") \/ Has(e, "network") THEN "CONNECTION"
    ELSE IF Has(e, "permission") \/ Has(e, "access denied") THEN "PERMISSION"
    ELSE IF Has(e, "syntax") \/ Has(e, "invalid") THEN "SYNTAX"
    ELSE "UNKNOWN"

\* DatabaseManager.get_connection: whatever is raised while the connection
\* is acquired or inside the caller's `with` block leaves the context
\* manager as DatabaseConnectionError("Failed to get database connection:
\* <message>"), which carries the cues of the message and "connection".
Raised(o) == [cls |-> "DatabaseConnectionError", cues |-> o.cues \cup {"connection"}]

\* StoredProcedureExecutor._create_success_response
_create_success_response_with_error_fields(result_sets, output_params) == [ExecutionStatus |-> "Success", ErrorMessage |-> "", ErrorCategory |-> "NONE", ResultSets |-> result_sets, OutputParameters |-> output_params, Timestamp |-> "now"]

_create_success_response(result_sets, output_params) == [ExecutionStatus |-> "Success", ResultSets |-> result_sets, OutputParameters |-> output_params, Timestamp |-> "now"]

\* StoredProcedureExecutor._create_error_response (error_category defaults
\* to "UNKNOWN" at the call sites that pass the message alone).
_create_error_response(error_message, error_category) == [ExecutionStatus |-> "Error", ErrorMessage |-> error_message, ErrorCategory |-> error_category, ResultSets |-> <<>>, OutputParameters |-> "None", Timestamp |-> "now"]

\* f"ResultSet_{result_set_count}"
ResultSetKey(n) ==
    IF n = 0 THEN "ResultSet_0"
    ELSE IF n = 1 THEN "ResultSet_1"
    ELSE IF n = 2 THEN "ResultSet_2"
    ELSE IF n = 3 THEN "ResultSet_3"
    ELSE "ResultSet_4"

\* The first row the driver delivers in its i-th result set.
DriverRow(i) ==
    IF i = 1 THEN "row 1 of set 1"
    ELSE IF i = 2 THEN "row 1 of set 2"
    ELSE IF i = 3 THEN "row 1 of set 3"
    ELSE IF i = 4 THEN "row 1 of set 4"
    ELSE "row 1 of set 5"

\* StoredProcedureExecutor._process_all_result_sets: one entry per result
\* set the driver exposes, in driver order.
_process_all_result_sets(k) == [i \in 1..k |-> [key |-> ResultSetKey(i - 1), rows |-> <<DriverRow(i)>>]]

\* A call of _execute_simple / _execute_with_output_params either returns an
\* envelope or lets an exception out.
Returns(env) == [raised |-> FALSE, exc |-> NoException, env |-> env]

Raises(exc) == [raised |-> TRUE, exc |-> exc, env |-> NoEnvelope]

\* StoredProcedureExecutor._execute_simple: both except clauses turn the
\* error into an Error envelope of the default category.
_execute_simple_raising(o, k) ==
    IF o = Ok
    THEN Returns(_create_success_response(_process_all_result_sets(k), "None"))
    ELSE Raises([cls |-> "SPConnectionError", cues |-> Raised(o).cues])

_execute_simple(o, k) ==
    IF o = Ok
    THEN Returns(_create_success_response(_process_all_result_sets(k), "None"))
    ELSE IF Raised(o).cls = "pyodbc.Error"
         THEN Returns(_create_error_response("Database error", "UNKNOWN"))
         ELSE Returns(_create_error_response("Execution error", "UNKNOWN"))

\* StoredProcedureExecutor._execute_with_output_params: the last result set
\* is the SELECT of the declared output variables.  last_result is a dict
\* with the one key "ResultSet_<n>", and `"ResultSet_" in last_result` asks
\* for the key "ResultSet_" itself.
_execute_with_output_params(o, k) ==
    IF o = Ok
    THEN LET all_results == _process_all_result_sets(k + 1)
             last_result == all_results[Len(all_results)]
             output_params == IF last_result.key = "ResultSet_" /\ last_result.rows # <<>> THEN last_result.rows[1] ELSE "None"
         IN Returns(_create_success_response(IF Len(all_results) > 1 THEN SubSeq(all_results, 1, Len(all_results) - 1) ELSE <<>>, output_params))
    ELSE IF Raised(o).cls = "pyodbc.Error"
         THEN Returns(_create_error_response("Database error", "UNKNOWN"))
         ELSE Returns(_create_error_response("Execution error", "UNKNOWN"))

\* The except clauses of the retry loop, for the exception e raised in
\* attempt number a (0-based): retry, return an envelope, or let it out.
Retry == [do |-> "retry", env |-> NoEnvelope]

Return(env) == [do |-> "return", env |-> env]

Propagate == [do |-> "propagate", env |-> NoEnvelope]

retry_handler_propagating(e, a) == Propagate

retry_handler(e, a) ==
    IF e.cls \in {"SPConnectionError", "SPTimeoutError"}
    THEN IF a < max_retries - 1 THEN Retry ELSE Return(_create_error_response("Execution failed after retries", "RETRYABLE_ERROR"))
    ELSE IF e.cls \in {"SPPermissionError", "SPSyntaxError"}
    THEN Return(_create_error_response("error", "PERMANENT_ERROR"))
    ELSE IF e.cls \in ExceptionClasses
    THEN IF _categorize_error(e) \in {"TIMEOUT", "CONNECTION"} /\ a < max_retries - 1
         THEN Retry
         ELSE Return(_create_error_response("error", _categorize_error(e)))
    ELSE Propagate

\* One invocation: the procedure's analysis result, the number of result
\* sets it returns and the database's behaviour at its first, second and
\* third execution are fixed by the environment.
ExecInit ==
    /\ e_pc = "analyze"
    /\ attempt = 0
    /\ attempts = 0
    /\ script \in [1..max_retries -> Outcomes]
    /\ analysis \in Analyses
    /\ driver_sets \in 0..MaxResultSets
    /\ exception = NoException
    /\ envelope = NoEnvelope
    /\ slept = 0

\* `sp_signature = self._analyze_sp_signature(sp_definition)` of one pass
\* of `for attempt in range(max_retries)`.
AnalyzeSignature ==
    /\ e_pc = "analyze"
    /\ IF analysis.cls = "ValueError"
       THEN /\ exception' = analysis
            /\ e_pc' = "handle"
       ELSE /\ exception' = exception
            /\ e_pc' = "execute"
    /\ UNCHANGED <<attempt, attempts, script, analysis, driver_sets, envelope, slept>>
    /\ UNCHANGED <<pool_vars, item_vars, batch_vars, unit_vars>>

\* `return self._execute_with_output_params(...)` or
\* `return self._execute_simple(...)`: one execution against the database.
ExecuteStrategy ==
    /\ e_pc = "execute"
    /\ attempts' = attempts + 1
    /\ LET r == IF analysis.cls = "output"
                THEN _execute_with_output_params(script[attempts + 1], driver_sets)
                ELSE _execute_simple(script[attempts + 1], driver_sets)
       IN IF r.raised
          THEN /\ exception' = r.exc
               /\ envelope' = envelope
               /\ e_pc' = "handle"
          ELSE /\ exception' = exception
               /\ envelope' = r.env
               /\ e_pc' = "done"
    /\ UNCHANGED <<attempt, script, analysis, driver_sets, slept>>
    /\ UNCHANGED <<pool_vars, item_vars, batch_vars, unit_vars>>

\* The except clauses, then `time.sleep(retry_delay * (attempt + 1))` and
\* `continue`; when range(max_retries) is used up the statement after the
\* loop returns the MAX_RETRIES_EXCEEDED envelope.
HandleException ==
    /\ e_pc = "handle"
    /\ LET h == retry_handler(exception, attempt)
       IN IF h.do = "retry"
          THEN /\ attempt' = attempt + 1
               /\ slept' = slept + retry_delay * (attempt + 1)
               /\ IF attempt + 1 < max_retries
                  THEN /\ e_pc' = "analyze"
                       /\ envelope' = envelope
                  ELSE /\ e_pc' = "done"
                       /\ envelope' = _create_error_response("Maximum retries exceeded", "MAX_RETRIES_EXCEEDED")
          ELSE /\ e_pc' = IF h.do = "return" THEN "done" ELSE "propagated"
               /\ envelope' = h.env
               /\ UNCHANGED <<attempt, slept>>
    /\ exception' = NoException
    /\ UNCHANGED <<attempts, script, analysis, driver_sets>>
    /\ UNCHANGED <<pool_vars, item_vars, batch_vars, unit_vars>>

ExecNext ==
    \/ AnalyzeSignature
    \/ ExecuteStrategy
    \/ HandleException

InitExec == ExecInit /\ PoolOff /\ ItemOff /\ BatchOff /\ UnitOff

SpecExec == InitExec /\ [][ExecNext]_vars

\* The invocation runs on its caller's thread, which keeps running: every
\* driver call and every time.sleep returns.
SpecExecLive == InitExec /\ [][ExecNext]_vars /\ WF_vars(ExecNext)

(***************************************************************************)
(* MainProcessor._process_single_sp (main_processor.py): one item.         *)
(***************************************************************************)
Kinds == {"Get", "Save"}

\* str.upper() of the kinds the model draws.
Upper(kind) == IF kind = "Get" THEN "GET" ELSE IF kind = "List" THEN "LIST" ELSE "SAVE"

\* `sp_info.type.upper() in ["GET", "LIST"]`
IsGetOrList(kind) == Upper(kind) \in {"GET", "LIST"}

\* Python truth of a str-or-None value.
Truthy(v) == v # "None" /\ v # ""

\* What the environment does to one item.  fetch: get_sp_definition returns
\* the text, returns None, or raises (name validation, driver or connection
\* error).  extract: extract_input_json returns JSON, or None because nothing
\* was found, or None because the source text is above the configured size
\* ceiling (max_json_size_mb).  exec: the
\* status of the envelope the executor returns.  w: each file write returns
\* True or False within the 30 s wait, or outlasts it and then saves the
\* file or fails.
FetchOutcomes == {"ok", "null", "raise"}

ExtractOutcomes == {"json", "none", "too_large"}

ExecStatuses == {"Success", "Error"}

WriteOutcomes == {"saved", "failed", "timeout_then_saved", "timeout_then_failed"}

Artifacts == {"definition", "input", "output"}

ItemEnvs == [fetch : FetchOutcomes, extract : ExtractOutcomes, exec : ExecStatuses, w : [Artifacts -> WriteOutcomes]]

\* ProcessingResult(sp_info=sp_info, success=False)
NewResult == [success |-> FALSE, definition_saved |-> FALSE, input_saved |-> FALSE, output_saved |-> FALSE, error_message |-> ""]

\* Step 2 and the default of step 3: the payload the procedure is run with.
payload(kind, extracted, templates) ==
    LET step2 == IF IsGetOrList(kind)
                 THEN IF extracted = "json" THEN "extracted"
                      ELSE IF templates THEN "template" ELSE "None"
                 ELSE "None"
    IN IF ~Truthy(step2) THEN "{}" ELSE step2

\* Step 4 with an input write for every kind.
submitted_for_every_kind(kind, in_json, out_json) ==
    <<"definition">> \o (IF Truthy(in_json) THEN <<"input">> ELSE <<>>) \o (IF Truthy(out_json) THEN <<"output">> ELSE <<>>)

\* Step 4: the writes handed to the I/O pool, in submission order.
submitted(kind, in_json, out_json) ==
    <<"definition">> \o (IF Truthy(in_json) /\ IsGetOrList(kind) THEN <<"input">> ELSE <<>>) \o (IF Truthy(out_json) THEN <<"output">> ELSE <<>>)

\* future.result(timeout=30): the value save_file returned, or TimeoutError.
future_result(oc) == IF oc = "saved" THEN "True" ELSE IF oc = "failed" THEN "False" ELSE "TimeoutError"

\* The loop over file_futures: position 0 sets definition_saved, position 1
\* sets input_saved when input_json is truthy, any other sets output_saved;
\* a future that raises leaves the flags as they are.
RECURSIVE collect_flags(_, _, _, _, _)
collect_flags(i, futs, in_json, w, res) ==
    IF i >= Len(futs) THEN res
    ELSE LET got == future_result(w[futs[i + 1]])
             success == (got = "True")
         IN IF got = "TimeoutError" THEN collect_flags(i + 1, futs, in_json, w, res)
            ELSE IF i = 0 THEN collect_flags(i + 1, futs, in_json, w, [res EXCEPT !.definition_saved = success])
            ELSE IF i = 1 /\ Truthy(in_json) THEN collect_flags(i + 1, futs, in_json, w, [res EXCEPT !.input_saved = success])
            ELSE collect_flags(i + 1, futs, in_json, w, [res EXCEPT !.output_saved = success])

\* `result.success = result.definition_saved`
mark_success_needs_output(res) == [res EXCEPT !.success = res.definition_saved /\ res.output_saved]

mark_success(res) == [res EXCEPT !.success = res.definition_saved]

\* The files on disk once the I/O pool has shut down: leaving the `with`
\* block waits for every submitted write, also one whose result the loop
\* stopped waiting for.
written(futs, w) == {futs[i] : i \in {j \in 1..Len(futs) : w[futs[j]] \in {"saved", "timeout_then_saved"}}}

\* _process_single_sp as a function of the item and of what the
\* environment does to it: the ProcessingResult it returns.
_process_single_sp(kind, templates, env) ==
    IF env.fetch = "null" THEN [NewResult EXCEPT !.error_message = "Could not retrieve SP definition"]
    ELSE IF env.fetch = "raise" THEN [NewResult EXCEPT !.error_message = "fetch error"]
    ELSE LET in_json == payload(kind, env.extract, templates)
             futs == submitted(kind, in_json, env.exec)
         IN mark_success(collect_flags(0, futs, in_json, env.w, NewResult))

ItemInit ==
    /\ p_pc = "fetch"
    /\ p_kind \in Kinds
    /\ p_templates \in BOOLEAN
    /\ p_env \in ItemEnvs
    /\ input_json = "None"
    /\ output_json = "None"
    /\ file_futures = <<>>
    /\ files = {}
    /\ result = NewResult

\* Step 1: `sp_definition = self.db_manager.get_sp_definition(name)`.
FetchDefinition ==
    /\ p_pc = "fetch"
    /\ IF p_env.fetch = "ok"
       THEN /\ p_pc' = "input"
            /\ result' = result
       ELSE /\ p_pc' = "returned"
            /\ result' = [result EXCEPT !.error_message = IF p_env.fetch = "null" THEN "Could not retrieve SP definition" ELSE "fetch error"]
    /\ UNCHANGED <<p_kind, p_templates, p_env, input_json, output_json, file_futures, files>>
    /\ UNCHANGED <<pool_vars, exec_vars, batch_vars, unit_vars>>

\* Step 2 done in a way that skips step 3: the writes would follow at once.
PrepareInputThenSave ==
    /\ p_pc = "input"
    /\ input_json' = payload(p_kind, p_env.extract, p_templates)
    /\ p_pc' = "save"
    /\ UNCHANGED <<p_kind, p_templates, p_env, output_json, file_futures, files, result>>
    /\ UNCHANGED <<pool_vars, exec_vars, batch_vars, unit_vars>>

\* Step 2: extract the input JSON or create a template (Get and List only),
\* then default to "{}".
PrepareInput ==
    /\ p_pc = "input"
    /\ input_json' = payload(p_kind, p_env.extract, p_templates)
    /\ p_pc' = "execute"
    /\ UNCHANGED <<p_kind, p_templates, p_env, output_json, file_futures, files, result>>
    /\ UNCHANGED <<pool_vars, exec_vars, batch_vars, unit_vars>>

\* Step 3: `output_json = self.sp_executor.execute_stored_procedure(...)`.
ExecuteProcedure ==
    /\ p_pc = "execute"
    /\ output_json' = p_env.exec
    /\ p_pc' = "save"
    /\ UNCHANGED <<p_kind, p_templates, p_env, input_json, file_futures, files, result>>
    /\ UNCHANGED <<pool_vars, exec_vars, batch_vars, unit_vars>>

\* Step 4 and the success mark: submit the writes, wait for each result,
\* leave the I/O pool, set result.success.
SaveFiles ==
    /\ p_pc = "save"
    /\ LET futs == submitted(p_kind, input_json, output_json)
       IN /\ file_futures' = futs
          /\ files' = written(futs, p_env.w)
          /\ result' = mark_success(collect_flags(0, futs, input_json, p_env.w, result))
    /\ p_pc' = "returned"
    /\ UNCHANGED <<p_kind, p_templates, p_env, input_json, output_json>>
    /\ UNCHANGED <<pool_vars, exec_vars, batch_vars, unit_vars>>

ItemNext ==
    \/ FetchDefinition
    \/ PrepareInput
    \/ ExecuteProcedure
    \/ SaveFiles

InitItem == ItemInit /\ PoolOff /\ ExecOff /\ BatchOff /\ UnitOff

SpecItem == InitItem /\ [][ItemNext]_vars

(***************************************************************************)
(* MainProcessor._process_parallel, _process_sequential and                *)
(* _generate_summary (main_processor.py): the batch.                       *)
(***************************************************************************)
MaxItems == 3

Min(a, b) == IF a < b THEN a ELSE b

N == Len(sp_list)

Items == 1..N

\* A call of _process_single_sp returns a ProcessingResult or raises.
NoCall == [raised |-> FALSE, result |-> NewResult]

\* Every ProcessingResult _process_single_sp can return for an item of the
\* kind; the flags it sets do not depend on create_input_templates.
ItemResults == [kind \in Kinds |-> {_process_single_sp(kind, t, env) : t \in BOOLEAN, env \in ItemEnvs}]

\* The except clause of both loops:
\* ProcessingResult(sp_info=sp_info, success=False, error_message=str(e)).
CriticalResult == [NewResult EXCEPT !.error_message = "critical error"]

\* `sum(1 for r in results if r.<flag>)` of _generate_summary, per flag.
CountSuccess(rs) == Cardinality({k \in 1..Len(rs) : rs[k].result.success})

CountDefinitionSaved(rs) == Cardinality({k \in 1..Len(rs) : rs[k].result.definition_saved})

CountInputSaved(rs) == Cardinality({k \in 1..Len(rs) : rs[k].result.input_saved})

CountOutputSaved(rs) == Cardinality({k \in 1..Len(rs) : rs[k].result.output_saved})

\* MainProcessor._generate_summary
_generate_summary(rs) ==
    LET total == Len(rs)
        successful == CountSuccess(rs)
    IN [success |-> successful = total, total_processed |-> total, successful |-> successful, failed |-> total - successful, definitions_saved |-> CountDefinitionSaved(rs), inputs_saved |-> CountInputSaved(rs), outputs_saved |-> CountOutputSaved(rs)]

\* `max_workers = min(self.config.processing.max_workers, len(sp_list))`
pool_workers_one_more == Min(max_workers, N) + 1

pool_workers == Min(max_workers, N)

Running == {i \in Items : i_state[i] = "running"}

\* The lists the batch is run on: up to MaxItems items of one kind (the
\* loops never read the kind; only _process_single_sp does).
SpLists == {[i \in 1..n |-> kind] : n \in 1..MaxItems, kind \in Kinds}

\* The configuration and the list are the caller's; continue_on_error is
\* read by the sequential loop only and keeps its default (True) in
\* parallel mode; a max_workers above the list length acts like the length.
BatchInit ==
    /\ b_pc = "run"
    /\ sp_list \in SpLists
    /\ parallel_processing \in BOOLEAN
    /\ continue_on_error \in IF parallel_processing THEN {TRUE} ELSE BOOLEAN
    /\ max_workers \in 1..MaxItems
    /\ i_state = [i \in 1..Len(sp_list) |-> "pending"]
    /\ i_call = [i \in 1..Len(sp_list) |-> NoCall]
    /\ results = <<>>
    /\ cur = 1
    /\ summary = [pending |-> TRUE]

\* Parallel: a free worker of the ThreadPoolExecutor takes the oldest
\* submitted task.  Sequential: the loop calls _process_single_sp for the
\* next item of the list.
StartItem(i) ==
    /\ b_pc = "run"
    /\ i_state[i] = "pending"
    /\ IF parallel_processing
       THEN /\ Cardinality(Running) < pool_workers
            /\ \A j \in 1..(i - 1) : i_state[j] # "pending"
       ELSE i = cur
    /\ i_state' = [i_state EXCEPT ![i] = "running"]
    /\ UNCHANGED <<b_pc, sp_list, parallel_processing, continue_on_error, max_workers, i_call, results, cur, summary>>
    /\ UNCHANGED <<pool_vars, exec_vars, item_vars, unit_vars>>

\* _process_single_sp returns for item i.
FinishItem(i) ==
    /\ b_pc = "run"
    /\ i_state[i] = "running"
    /\ \E r \in ItemResults[sp_list[i]] : i_call' = [i_call EXCEPT ![i] = [raised |-> FALSE, result |-> r]]
    /\ i_state' = [i_state EXCEPT ![i] = "finished"]
    /\ UNCHANGED <<b_pc, sp_list, parallel_processing, continue_on_error, max_workers, results, cur, summary>>
    /\ UNCHANGED <<pool_vars, exec_vars, item_vars, unit_vars>>

\* The body of the collecting loop: as_completed yields a finished future
\* (parallel), or the call has just returned (sequential).  The result is
\* appended; an exception of the call is recorded as a failed result and,
\* in sequential mode with continue_on_error false, ends the loop.
CollectItem(i) ==
    /\ b_pc = "run"
    /\ i_state[i] = "finished"
    /\ parallel_processing \/ i = cur
    /\ i_state' = [i_state EXCEPT ![i] = "collected"]
    /\ results' = Append(results, [sp |-> i, result |-> IF i_call[i].raised THEN CriticalResult ELSE i_call[i].result])
    /\ cur' = IF parallel_processing THEN cur
              ELSE IF i_call[i].raised /\ ~continue_on_error THEN N + 1
              ELSE cur + 1
    /\ UNCHANGED <<b_pc, sp_list, parallel_processing, continue_on_error, max_workers, i_call, summary>>
    /\ UNCHANGED <<pool_vars, exec_vars, item_vars, unit_vars>>

\* `summary = self._generate_summary(results)` once the loop has ended.
GenerateSummary ==
    /\ b_pc = "run"
    /\ IF parallel_processing THEN \A i \in Items : i_state[i] = "collected" ELSE cur > N
    /\ summary' = _generate_summary(results)
    /\ b_pc' = "done"
    /\ UNCHANGED <<sp_list, parallel_processing, continue_on_error, max_workers, i_state, i_call, results, cur>>
    /\ UNCHANGED <<pool_vars, exec_vars, item_vars, unit_vars>>

BatchNext ==
    \/ \E i \in Items : StartItem(i)
    \/ \E i \in Items : FinishItem(i)
    \/ \E i \in Items : CollectItem(i)
    \/ GenerateSummary

InitBatch == BatchInit /\ PoolOff /\ ExecOff /\ ItemOff /\ UnitOff

SpecBatch == InitBatch /\ [][BatchNext]_vars

(***************************************************************************)
(* One item with the executor inside it (SpecFlow): _process_single_sp     *)
(* calls execute_stored_procedure at step 3, and the executor's own steps  *)
(* (signature analysis, execution, except clauses) run between the call    *)
(* and its return.  The steps of SpecItem and SpecExec are reused.         *)
(***************************************************************************)

\* What the database does to the executions of the call.
FlowOutcomes == {Ok, [cls |-> "pyodbc.Error", cues |-> {"timeout"}], [cls |-> "Exception", cues |-> {"permission"}]}

\* Each file write returns True or False within the wait.
FlowEnvs == {env \in ItemEnvs : env.exec = "Success" /\ \A a \in Artifacts : env.w[a] \in {"saved", "failed"}}

FlowInit ==
    /\ p_pc = "fetch"
    /\ p_kind \in Kinds
    /\ p_templates \in BOOLEAN
    /\ p_env \in FlowEnvs
    /\ input_json = "None"
    /\ output_json = "None"
    /\ file_futures = <<>>
    /\ files = {}
    /\ result = NewResult
    /\ e_pc = "idle"
    /\ attempt = 0
    /\ attempts = 0
    /\ script \in [1..max_retries -> FlowOutcomes]
    /\ analysis \in Analyses
    /\ driver_sets = 1
    /\ exception = NoException
    /\ envelope = NoEnvelope
    /\ slept = 0

\* Step 3, the call: `self.sp_executor.execute_stored_procedure(name,
\* input_json, sp_definition)` enters the retry loop.
CallExecutor ==
    /\ p_pc = "execute"
    /\ e_pc = "idle"
    /\ e_pc' = "analyze"
    /\ UNCHANGED <<attempt, attempts, script, analysis, driver_sets, exception, envelope, slept>>
    /\ UNCHANGED <<pool_vars, item_vars, batch_vars, unit_vars>>

\* Step 3, the return: output_json is bound to the envelope.
ExecutorReturns ==
    /\ p_pc = "execute"
    /\ e_pc = "done"
    /\ output_json' = envelope.ExecutionStatus
    /\ p_pc' = "save"
    /\ UNCHANGED <<p_kind, p_templates, p_env, input_json, file_futures, files, result>>
    /\ UNCHANGED <<pool_vars, exec_vars, batch_vars, unit_vars>>

FlowNext ==
    \/ FetchDefinition
    \/ PrepareInput
    \/ CallExecutor
    \/ AnalyzeSignature
    \/ ExecuteStrategy
    \/ HandleException
    \/ ExecutorReturns
    \/ SaveFiles

InitFlow == FlowInit /\ PoolOff /\ BatchOff /\ UnitOff

SpecFlow == InitFlow /\ [][FlowNext]_vars

(***************************************************************************)
(* Text.  A string is a sequence of characters; a few multi-character      *)
(* pieces that no test looks inside are written as one element.            *)
(***************************************************************************)

\* `pat in s`
Contains(s, pat) == \E i \in 1..(Len(s) - Len(pat) + 1) : SubSeq(s, i, i + Len(pat) - 1) = pat

\* s.startswith(pat)
StartsWith(s, pat) == Len(s) >= Len(pat) /\ SubSeq(s, 1, Len(pat)) = pat

\* s.endswith(pat)
EndsWith(s, pat) == Len(s) >= Len(pat) /\ SubSeq(s, Len(s) - Len(pat) + 1, Len(s)) = pat

(***************************************************************************)
(* DatabaseManager.get_sp_definition and _validate_sp_name                 *)
(* (database_manager.py).  In a name, "Q" stands for the seven characters  *)
(* [dbo].[ and "a" for any harmless character.                             *)
(***************************************************************************)
MaxNameLen == 4

NameChars == {"a", ";", "-", "/", "*", "x", "X", "p", "_", "Q", " "}

Names == UNION {[1..n -> NameChars] : n \in 0..MaxNameLen}

\* str.lower(), element by element.
LowerChar(c) ==
    IF c = "X" THEN "x"
    ELSE IF c = "Integrated Security" THEN "integrated security"
    ELSE IF c = "DRIVER" THEN "driver"
    ELSE IF c = "SERVER" THEN "server"
    ELSE IF c = "Trusted_Connection" THEN "trusted_connection"
    ELSE c

Lower(s) == [i \in 1..Len(s) |-> LowerChar(s[i])]

\* len(sp_name.strip()) == 0
IsBlank(s) == \A i \in 1..Len(s) : s[i] = " "

\* dangerous_patterns = [";", "--", "/*", "*/"]
dangerous_patterns_without_comment_end == {<<";">>, <<"-", "-">>, <<"/", "*">>}

dangerous_patterns == {<<";">>, <<"-", "-">>, <<"/", "*">>, <<"*", "/">>}

\* DatabaseManager._validate_sp_name
_validate_sp_name(name) ==
    IF name = <<>> \/ IsBlank(name) THEN FALSE
    ELSE IF \E pattern \in dangerous_patterns : Contains(Lower(name), pattern) THEN FALSE
    ELSE IF Contains(Lower(name), <<"x", "p", "_">>) /\ ~StartsWith(Lower(name), <<"Q", "x", "p", "_">>) THEN FALSE
    ELSE TRUE

\* One call of get_sp_definition; the name is the caller's.
FetchInit ==
    /\ sp_name \in Names
    /\ g_pc = "start"
    /\ queries = <<>>
    /\ u_pc = "off"
    /\ u_in = <<>>
    /\ u_out = <<>>

\* `with self.get_connection() as conn:` hands out a connection, or raises
\* DatabaseConnectionError (pool exhausted, connect failure).
AcquireConnection ==
    /\ g_pc = "start"
    /\ \E ok \in BOOLEAN : g_pc' = IF ok THEN "validate" ELSE "raised"
    /\ UNCHANGED <<sp_name, queries, u_pc, u_in, u_out>>
    /\ UNCHANGED <<pool_vars, exec_vars, item_vars, batch_vars>>

\* `if not self._validate_sp_name(sp_name): raise ValueError(...)`: the
\* ValueError leaves the `with` block as DatabaseConnectionError and the
\* `except Exception` clause re-raises it.
ValidateName ==
    /\ g_pc = "validate"
    /\ g_pc' = IF _validate_sp_name(sp_name) THEN "query" ELSE "raised"
    /\ UNCHANGED <<sp_name, queries, u_pc, u_in, u_out>>
    /\ UNCHANGED <<pool_vars, exec_vars, item_vars, batch_vars>>

\* `cursor.execute("SELECT OBJECT_DEFINITION(OBJECT_ID(?))", sp_name)` and
\* the fetch: the text, nothing, or a driver error.
IssueQuery ==
    /\ g_pc = "query"
    /\ queries' = Append(queries, sp_name)
    /\ \E outcome \in {"returned_definition", "returned_none", "raised"} : g_pc' = outcome
    /\ UNCHANGED <<sp_name, u_pc, u_in, u_out>>
    /\ UNCHANGED <<pool_vars, exec_vars, item_vars, batch_vars>>

FetchNext ==
    \/ AcquireConnection
    \/ ValidateName
    \/ IssueQuery

InitFetch == FetchInit /\ PoolOff /\ ExecOff /\ ItemOff /\ BatchOff

SpecFetch == InitFetch /\ [][FetchNext]_vars

(***************************************************************************)
(* ConnectionStringParser and DatabaseManager._prepare_connection_string   *)
(* (database_manager.py).  A connection string is a sequence of            *)
(* characters and words; a word stands for its letters.                    *)
(***************************************************************************)
MaxConnLen == 4

ConnChars == {"driver", "server", "Integrated Security", "=", ";", " ", "'", "true", "\\"}

ConnStrings == UNION {[1..n -> ConnChars] : n \in 0..MaxConnLen}

\* str.upper(), element by element.
UpperChar(c) ==
    IF c = "o" THEN "O"
    ELSE IF c = "u" THEN "U"
    ELSE IF c = "t" THEN "T"
    ELSE IF c = "p" THEN "P"
    ELSE IF c = "driver" THEN "DRIVER"
    ELSE IF c = "server" THEN "SERVER"
    ELSE IF c = "true" THEN "TRUE"
    ELSE IF c = "yes" THEN "YES"
    ELSE IF c = "Integrated Security" THEN "INTEGRATED SECURITY"
    ELSE IF c = "Trusted_Connection" THEN "TRUSTED_CONNECTION"
    ELSE c

UpperText(s) == [i \in 1..Len(s) |-> UpperChar(s[i])]

\* str.strip()
RECURSIVE Strip(_)
Strip(s) ==
    IF s # <<>> /\ Head(s) = " " THEN Strip(Tail(s))
    ELSE IF s # <<>> /\ s[Len(s)] = " " THEN Strip(SubSeq(s, 1, Len(s) - 1))
    ELSE s

\* re.split(r"(?<!\\);", connection_string), from position start on.
RECURSIVE split_parts(_, _)
split_parts(s, start) ==
    LET seps == {i \in start..Len(s) : s[i] = ";" /\ (i = 1 \/ s[i - 1] # "\\")}
    IN IF seps = {} THEN <<SubSeq(s, start, Len(s))>>
       ELSE LET i == CHOOSE k \in seps : \A j \in seps : k <= j
            IN <<SubSeq(s, start, i - 1)>> \o split_parts(s, i + 1)

\* Remove quotes if present.
unquote(value) ==
    IF StartsWith(value, <<"\"">>) /\ EndsWith(value, <<"\"">>) THEN SubSeq(value, 2, Len(value) - 1)
    ELSE IF StartsWith(value, <<"'">>) /\ EndsWith(value, <<"'">>) THEN SubSeq(value, 2, Len(value) - 1)
    ELSE value

\* components[key] = value: a dict keeps the position of the first insertion.
put(components, key, value) ==
    IF \E i \in 1..Len(components) : components[i].key = key
    THEN [i \in 1..Len(components) |-> IF components[i].key = key THEN [key |-> key, value |-> value] ELSE components[i]]
    ELSE Append(components, [key |-> key, value |-> value])

\* ConnectionStringParser.parse_dotnet_connection_string, the loop over the
\* parts.
RECURSIVE parse_parts(_, _)
parse_parts(parts, components) ==
    IF parts = <<>> THEN components
    ELSE LET part == Strip(Head(parts))
         IN IF Contains(part, <<"=">>)
            THEN LET i == CHOOSE k \in 1..Len(part) : part[k] = "=" /\ \A j \in 1..(k - 1) : part[j] # "="
                     key == Lower(Strip(SubSeq(part, 1, i - 1)))
                     value == unquote(Strip(SubSeq(part, i + 1, Len(part))))
                 IN parse_parts(Tail(parts), put(components, key, value))
            ELSE parse_parts(Tail(parts), components)

parse_dotnet_connection_string(connection_string) == parse_parts(split_parts(connection_string, 1), <<>>)

\* mapping.get(dotnet_key.lower()) for the keys a string of ConnChars can
\* hold; None is written "".
mapping(key) ==
    IF key = <<"server">> THEN "SERVER"
    ELSE IF key = <<"integrated security">> THEN "Trusted_Connection"
    ELSE ""

\* odbc_parts = ["DRIVER={ODBC Driver 17 for SQL Server}"]
odbc_prefix_missing == <<>>

odbc_prefix == <<"DRIVER", "=", "{ODBC Driver 17 for SQL Server}">>

\* The part appended for one component (nothing for an unmapped key).
odbc_part(c) ==
    LET odbc_key == mapping(c.key)
    IN IF odbc_key = "" THEN <<>>
       ELSE IF odbc_key = "Trusted_Connection" /\ Lower(c.value) \in {<<"true">>, <<"yes">>, <<"sspi">>} THEN <<<<"Trusted_Connection", "=", "yes">>>>
       ELSE <<<<odbc_key, "=">> \o c.value>>

RECURSIVE odbc_parts(_)
odbc_parts(components) == IF components = <<>> THEN <<>> ELSE odbc_part(Head(components)) \o odbc_parts(Tail(components))

\* ";".join(odbc_parts) + ";"
RECURSIVE join(_)
join(parts) == IF Len(parts) <= 1 THEN (IF parts = <<>> THEN <<>> ELSE parts[1]) ELSE parts[1] \o <<";">> \o join(Tail(parts))

\* ConnectionStringParser.convert_to_odbc_format
convert_to_odbc_format(dotnet_connection_string) == join(<<odbc_prefix>> \o odbc_parts(parse_dotnet_connection_string(dotnet_connection_string))) \o <<";">>

\* DatabaseManager._prepare_connection_string
_prepare_connection_string(connection_string) ==
    IF Contains(UpperText(connection_string), <<"DRIVER", "=">>) THEN connection_string
    ELSE convert_to_odbc_format(connection_string)

\* The configured string; u_out collects the prepared strings.
ConnInit ==
    /\ u_in \in ConnStrings
    /\ u_pc = "config"
    /\ u_out = <<>>
    /\ sp_name = <<>>
    /\ g_pc = "off"
    /\ queries = <<>>

\* DatabaseManager.__init__: self._odbc_connection_string =
\* self._prepare_connection_string().
PrepareConnectionString ==
    /\ u_pc = "config"
    /\ u_out' = <<_prepare_connection_string(u_in)>>
    /\ u_pc' = "prepared"
    /\ UNCHANGED <<u_in, sp_name, g_pc, queries>>
    /\ UNCHANGED <<pool_vars, exec_vars, item_vars, batch_vars>>

\* A DatabaseManager built on the prepared string prepares it again.
PrepareAgain ==
    /\ u_pc = "prepared"
    /\ u_out' = Append(u_out, _prepare_connection_string(u_out[1]))
    /\ u_pc' = "prepared_again"
    /\ UNCHANGED <<u_in, sp_name, g_pc, queries>>
    /\ UNCHANGED <<pool_vars, exec_vars, item_vars, batch_vars>>

ConnNext ==
    \/ PrepareConnectionString
    \/ PrepareAgain

InitConn == ConnInit /\ PoolOff /\ ExecOff /\ ItemOff /\ BatchOff

SpecConn == InitConn /\ [][ConnNext]_vars

(***************************************************************************)
(* StoredProcedureExecutor._analyze_sp_signature and _parse_parameter_type *)
(* (sp_executor.py:107-200).  A declaration list is a sequence of          *)
(* parameters; its text is a sequence of characters.                       *)
(***************************************************************************)
MaxParams == 3

ParamNames == <<<<"I", "d">>, <<"N", "a", "m", "e">>, <<"C", "o", "u", "n", "t">>, <<"T", "o", "t", "a", "l">>>>

ParamTypes == {<<"i", "n", "t">>, <<"n", "v", "a", "r", "c", "h", "a", "r", "(", "50", ")">>}

\* A default is absent (<<>>) or the literal 'x'.
ParamDefaults == {<<>>, <<"'", "x", "'">>}

Params == [type : ParamTypes, default : ParamDefaults, out : BOOLEAN]

Declarations == UNION {[1..n -> Params] : n \in 1..MaxParams}

OUTPUT == <<"O", "U", "T", "P", "U", "T">>

\* The text of parameter i up to its default: `@Name type [= default]`.
param_core(decl, i) ==
    <<"@">> \o ParamNames[i] \o <<" ">> \o decl[i].type
        \o (IF decl[i].default = <<>> THEN <<>> ELSE <<" ", "=", " ">> \o decl[i].default)

\* Parameter i as written in the procedure text, with its OUTPUT keyword
\* and the separator to the next parameter.
param_piece(decl, i) ==
    param_core(decl, i)
        \o (IF decl[i].out THEN <<" ">> \o OUTPUT ELSE <<>>)
        \o (IF i < Len(decl) THEN <<",", " ">> ELSE <<>>)

RECURSIVE text_upto(_, _)
text_upto(decl, i) == IF i = 0 THEN <<>> ELSE text_upto(decl, i - 1) \o param_piece(decl, i)

sp_definition_text(decl) == text_upto(decl, Len(decl))

\* match.end() of the match of param_pattern for parameter i: after name,
\* type and default the pattern takes `\s*` and then the first of `,`,
\* `\s+`, `$`, `OUTPUT` that fits, so the match takes the parameter's own
\* OUTPUT keyword, or else the comma that follows.
match_end(decl, i) ==
    Len(text_upto(decl, i - 1)) + Len(param_core(decl, i))
        + (IF decl[i].out THEN 1 + Len(OUTPUT) ELSE IF i < Len(decl) THEN 1 ELSE 0)

\* The characters of a piece of text, one per element ("50" is two).
Width(c) == IF c = "50" THEN 2 ELSE 1

RECURSIVE take_chars(_, _)
take_chars(s, n) ==
    IF s = <<>> \/ n < Width(Head(s)) THEN <<>>
    ELSE <<Head(s)>> \o take_chars(Tail(s), n - Width(Head(s)))

RECURSIVE char_len(_)
char_len(s) == IF s = <<>> THEN 0 ELSE Width(Head(s)) + char_len(Tail(s))

\* next_part = sp_definition[match_end : match_end + 20]
next_part(decl, i) ==
    LET text == sp_definition_text(decl)
    IN take_chars(SubSeq(text, match_end(decl, i) + 1, Len(text)), 20)

\* is_output = "OUTPUT" in next_part.upper()
is_output(decl, i) == Contains(UpperText(next_part(decl, i)), OUTPUT)

\* _parse_parameter_type: base_type is the first word of the upper-cased
\* type, size the integer between the parentheses (0 stands for None).
_parse_parameter_type(type_string) ==
    IF type_string = <<"i", "n", "t">> THEN [base_type |-> "INT", size |-> 0]
    ELSE [base_type |-> "NVARCHAR", size |-> 50]

param_info(decl, i) ==
    [name |-> ParamNames[i],
     type |-> _parse_parameter_type(decl[i].type).base_type,
     size |-> _parse_parameter_type(decl[i].type).size,
     default |-> decl[i].default,
     is_output |-> is_output(decl, i)]

RECURSIVE select_params(_, _, _)
select_params(decl, i, out) ==
    IF i = 0 THEN <<>>
    ELSE select_params(decl, i - 1, out)
            \o (IF is_output(decl, i) = out THEN <<param_info(decl, i)>> ELSE <<>>)

_analyze_sp_signature(decl) ==
    [has_output_params |-> \E i \in 1..Len(decl) : is_output(decl, i),
     output_params |-> select_params(decl, Len(decl), TRUE),
     input_params |-> select_params(decl, Len(decl), FALSE)]

SigInit ==
    /\ u_in \in Declarations
    /\ u_pc = "definition"
    /\ u_out = <<>>
    /\ sp_name = <<>>
    /\ g_pc = "off"
    /\ queries = <<>>

\* signature = self._analyze_sp_signature(sp_definition)
AnalyzeSpSignature ==
    /\ u_pc = "definition"
    /\ u_out' = _analyze_sp_signature(u_in)
    /\ u_pc' = "analyzed"
    /\ UNCHANGED <<u_in, sp_name, g_pc, queries>>
    /\ UNCHANGED <<pool_vars, exec_vars, item_vars, batch_vars>>

SigNext == AnalyzeSpSignature

InitSig == SigInit /\ PoolOff /\ ExecOff /\ ItemOff /\ BatchOff

SpecSig == InitSig /\ [][SigNext]_vars

(***************************************************************************)
(* JsonProcessor.extract_input_json (json_processor.py:54-178).  The       *)
(* procedure text is a sequence of characters and words; "\"Id\"" is the   *)
(* quoted string "Id".                                                     *)
(***************************************************************************)
MaxJsonLen == 4

JsonChars == {"{", "}", "\"Id\"", ":", "1", ",", " ", "'"}

JsonBodies == UNION {[1..n -> JsonChars] : n \in 0..MaxJsonLen}

\* The definition text `EXEC [dbo].[X] '{ body }'`.
exec_text(body) == <<"EXEC", " ", "[dbo].[X]", " ", "'", "{">> \o body \o <<"}", "'">>

Whitespace == {" ", "\n"}

StringChars == {"\"Id\"", "\"1\"", "\"11\"", "\"111\"", "\"1111\""}

\* json_patterns[0], r"EXEC\s+\[.*?\]\s+'(\{.*?\})'": group 1 runs from the
\* brace after the opening quote to the first closing brace that a quote
\* follows.  No other pattern of json_patterns fits a text of JsonChars.
pattern_group(sp_definition) ==
    LET start == CHOOSE i \in 2..Len(sp_definition) : sp_definition[i - 1] = "'" /\ sp_definition[i] = "{" /\ \A j \in 2..(i - 1) : ~(sp_definition[j - 1] = "'" /\ sp_definition[j] = "{")
        ends == {j \in (start + 1)..(Len(sp_definition) - 1) : sp_definition[j] = "}" /\ sp_definition[j + 1] = "'"}
        end == CHOOSE j \in ends : \A k \in ends : j <= k
    IN SubSeq(sp_definition, start, end)

\* re.sub(r"\s+", " ", cleaned).strip()
RECURSIVE collapse_whitespace(_)
collapse_whitespace(s) ==
    IF Len(s) <= 1 THEN (IF s = <<>> THEN <<>> ELSE <<IF s[1] \in Whitespace THEN " " ELSE s[1]>>)
    ELSE IF s[1] \in Whitespace /\ s[2] \in Whitespace THEN collapse_whitespace(Tail(s))
    ELSE <<IF s[1] \in Whitespace THEN " " ELSE s[1]>> \o collapse_whitespace(Tail(s))

RECURSIVE skip_ws(_, _)
skip_ws(s, i) == IF i <= Len(s) /\ s[i] \in Whitespace THEN skip_ws(s, i + 1) ELSE i

\* re.sub(r",(\s*[}\]])", r"\1", cleaned): a comma goes when a closing
\* brace follows it, whitespace apart.
remove_trailing_commas_not(s) == s

remove_trailing_commas(s) ==
    LET keep == {i \in 1..Len(s) : ~(s[i] = "," /\ skip_ws(s, i + 1) <= Len(s) /\ s[skip_ws(s, i + 1)] = "}")}
    IN SelectSeq([i \in 1..Len(s) |-> IF i \in keep THEN s[i] ELSE "<removed>"], LAMBDA c : c # "<removed>")

\* The quoted string of n characters 1.
quoted_word(n) == IF n = 1 THEN "\"1\"" ELSE IF n = 2 THEN "\"11\"" ELSE IF n = 3 THEN "\"111\"" ELSE "\"1111\""

RECURSIVE word_len(_, _)
word_len(s, i) == IF i <= Len(s) /\ s[i] = "1" THEN 1 + word_len(s, i + 1) ELSE 0

\* re.sub(r"'(\w+)':", r'"\1":', cleaned), from position i on.
RECURSIVE fix_single_quotes(_, _)
fix_single_quotes(s, i) ==
    IF i > Len(s) THEN <<>>
    ELSE LET n == word_len(s, i + 1)
         IN IF s[i] = "'" /\ n > 0 /\ i + n + 2 <= Len(s) /\ s[i + n + 1] = "'" /\ s[i + n + 2] = ":"
            THEN <<quoted_word(n), ":">> \o fix_single_quotes(s, i + n + 3)
            ELSE <<s[i]>> \o fix_single_quotes(s, i + 1)

\* JsonProcessor._clean_json_string
_clean_json_string(json_str) ==
    IF json_str = <<>> THEN json_str
    ELSE fix_single_quotes(remove_trailing_commas(Strip(collapse_whitespace(json_str))), 1)

\* JSON values.
Num(n) == [t |-> "num", n |-> n, s |-> "", m |-> <<>>]

Str(str) == [t |-> "str", n |-> 0, s |-> str, m |-> <<>>]

Obj(members) == [t |-> "obj", n |-> 0, s |-> "", m |-> members]

ParseError == [ok |-> FALSE, val |-> Num(0), next |-> 0]

RECURSIVE number_value(_)
number_value(n) == IF n = 0 THEN 0 ELSE 10 * number_value(n - 1) + 1

\* json.loads: a value at position i, and the members of an object whose
\* opening brace has been read.
RECURSIVE parse_value(_, _)
RECURSIVE parse_members(_, _, _)
parse_value(s, i) ==
    LET j == skip_ws(s, i)
    IN IF j > Len(s) THEN ParseError
       ELSE IF s[j] = "1" THEN [ok |-> TRUE, val |-> Num(number_value(word_len(s, j))), next |-> j + word_len(s, j)]
       ELSE IF s[j] \in StringChars THEN [ok |-> TRUE, val |-> Str(s[j]), next |-> j + 1]
       ELSE IF s[j] = "{" THEN
            (LET k == skip_ws(s, j + 1)
             IN IF k <= Len(s) /\ s[k] = "}" THEN [ok |-> TRUE, val |-> Obj(<<>>), next |-> k + 1]
                ELSE parse_members(s, k, <<>>))
       ELSE ParseError

parse_members(s, i, members) ==
    IF i > Len(s) \/ s[i] \notin StringChars THEN ParseError
    ELSE LET c == skip_ws(s, i + 1)
         IN IF c > Len(s) \/ s[c] # ":" THEN ParseError
            ELSE LET v == parse_value(s, c + 1)
                 IN IF ~v.ok THEN ParseError
                    ELSE LET e == skip_ws(s, v.next)
                             ms == put(members, s[i], v.val)
                         IN IF e > Len(s) THEN ParseError
                            ELSE IF s[e] = "}" THEN [ok |-> TRUE, val |-> Obj(ms), next |-> e + 1]
                            ELSE IF s[e] = "," THEN parse_members(s, skip_ws(s, e + 1), ms)
                            ELSE ParseError

json_loads(s) ==
    LET v == parse_value(s, 1)
    IN IF v.ok /\ skip_ws(s, v.next) = Len(s) + 1 THEN v ELSE ParseError

RECURSIVE indent(_)
indent(n) == IF n = 0 THEN <<>> ELSE <<" ", " ", " ", " ">> \o indent(n - 1)

RECURSIVE digits(_)
digits(n) == IF n < 10 THEN <<"1">> ELSE digits(n \div 10) \o <<"1">>

\* json.dumps(value, indent=4) at nesting depth d.
RECURSIVE json_dumps(_, _)
RECURSIVE dump_members(_, _, _)
json_dumps(v, d) ==
    IF v.t = "num" THEN digits(v.n)
    ELSE IF v.t = "str" THEN <<v.s>>
    ELSE IF v.m = <<>> THEN <<"{", "}">>
    ELSE <<"{", "\n">> \o dump_members(v.m, 1, d + 1) \o <<"\n">> \o indent(d) \o <<"}">>

dump_members(members, i, d) ==
    indent(d) \o <<members[i].key, ":", " ">> \o json_dumps(members[i].value, d)
        \o (IF i < Len(members) THEN <<",", "\n">> \o dump_members(members, i + 1, d) ELSE <<>>)

\* JsonProcessor._generate_basic_template: {"Id": 0, "UserId": 1,
\* "BizUnit": 1}, what _generate_template_from_sp returns for a text without
\* parameter declarations.
_generate_basic_template == <<"{\"Id\": 0, \"UserId\": 1, \"BizUnit\": 1}">>

\* JsonProcessor._extract_with_patterns; <<>> is None.
_extract_with_patterns(sp_definition) ==
    LET parsed_json == json_loads(_clean_json_string(pattern_group(sp_definition)))
    IN IF parsed_json.ok THEN json_dumps(parsed_json.val, 0) ELSE <<>>

\* JsonProcessor.extract_input_json with validate_extracted_json and
\* fallback_to_template at their defaults (True).
extract_input_json(sp_definition) ==
    LET extracted_json == _extract_with_patterns(sp_definition)
    IN IF extracted_json # <<>> /\ json_loads(extracted_json).ok THEN extracted_json
       ELSE _generate_basic_template

JsonInit ==
    /\ u_in \in JsonBodies
    /\ u_pc = "definition"
    /\ u_out = <<>>
    /\ sp_name = <<>>
    /\ g_pc = "off"
    /\ queries = <<>>

\* input_json = self.json_processor.extract_input_json(sp_definition, name)
ExtractInputJson ==
    /\ u_pc = "definition"
    /\ u_out' = extract_input_json(exec_text(u_in))
    /\ u_pc' = "extracted"
    /\ UNCHANGED <<u_in, sp_name, g_pc, queries>>
    /\ UNCHANGED <<pool_vars, exec_vars, item_vars, batch_vars>>

JsonNext == ExtractInputJson

InitJson == JsonInit /\ PoolOff /\ ExecOff /\ ItemOff /\ BatchOff

SpecJson == InitJson /\ [][JsonNext]_vars

(***************************************************************************)
(* JsonProcessor.create_input_template (json_processor.py:284-296) and the *)
(* step of MainProcessor._process_single_sp that calls it                  *)
(* (main_processor.py:242-250).                                            *)
(***************************************************************************)
\* Values of the Type column: ExcelManager.read_stored_procedures takes the
\* cell text as it is.
KindTexts ==
    {"Get", "GET", "get", "List", "LIST", "list", "Save", "SAVE", "save",
     "Delete", "DELETE", "delete", "Update", "UPDATE", "update", "Create", "CREATE", "create"}

\* sp_info.type.upper()
KindUpper(kind) ==
    IF kind \in {"Get", "GET", "get"} THEN "GET"
    ELSE IF kind \in {"List", "LIST", "list"} THEN "LIST"
    ELSE IF kind \in {"Save", "SAVE", "save"} THEN "SAVE"
    ELSE IF kind \in {"Delete", "DELETE", "delete"} THEN "DELETE"
    ELSE IF kind \in {"Update", "UPDATE", "update"} THEN "UPDATE"
    ELSE "CREATE"

\* templates.get(sp_type, {"Id": 0}): the keys of `templates` are matched
\* as they are written.
create_input_template(sp_type) ==
    IF sp_type = "Get" THEN [Id |-> 1]
    ELSE IF sp_type = "List" THEN [PageNumber |-> 1, PageSize |-> 10, SearchTerm |-> ""]
    ELSE IF sp_type = "Save" THEN [Id |-> 0, UserId |-> 1, BizUnit |-> 1]
    ELSE IF sp_type = "Delete" THEN [Id |-> 1, UserId |-> 1]
    ELSE IF sp_type = "Update" THEN [Id |-> 1, UserId |-> 1, BizUnit |-> 1]
    ELSE [Id |-> 0]

NoTemplate == [none |-> TRUE]

\* An item's kind, what extract_input_json returns for it, and
\* config.processing.create_input_templates.
TemplateInit ==
    /\ u_in \in [kind : KindTexts, extract : ExtractOutcomes, templates : BOOLEAN]
    /\ u_pc = "item"
    /\ u_out = <<>>
    /\ sp_name = <<>>
    /\ g_pc = "off"
    /\ queries = <<>>

\* Step 2 of _process_single_sp.
PrepareInputJson ==
    /\ u_pc = "item"
    /\ u_out' = IF KindUpper(u_in.kind) \in {"GET", "LIST"}
                THEN IF u_in.extract = "json" THEN [source |-> "extracted", template |-> NoTemplate]
                     ELSE IF u_in.templates THEN [source |-> "template", template |-> create_input_template(u_in.kind)]
                     ELSE [source |-> "none", template |-> NoTemplate]
                ELSE [source |-> "none", template |-> NoTemplate]
    /\ u_pc' = "prepared"
    /\ UNCHANGED <<u_in, sp_name, g_pc, queries>>
    /\ UNCHANGED <<pool_vars, exec_vars, item_vars, batch_vars>>

\* A direct call of the public method create_input_template(sp_name, sp_type).
CreateInputTemplate ==
    /\ u_pc = "item"
    /\ u_out' = [source |-> "direct", template |-> create_input_template(u_in.kind)]
    /\ u_pc' = "templated"
    /\ UNCHANGED <<u_in, sp_name, g_pc, queries>>
    /\ UNCHANGED <<pool_vars, exec_vars, item_vars, batch_vars>>

TemplateNext ==
    \/ PrepareInputJson
    \/ CreateInputTemplate

InitTemplate == TemplateInit /\ PoolOff /\ ExecOff /\ ItemOff /\ BatchOff

SpecTemplate == InitTemplate /\ [][TemplateNext]_vars

(***************************************************************************)
(* _analyze_sp_signature on a whole procedure text: the declaration list   *)
(* followed by AS and a body that may mention a declared parameter         *)
(* (sp_executor.py:119-152; re.finditer runs over all of sp_definition).   *)
(***************************************************************************)
\* The body after the declaration list: no mention of a parameter, an
\* assignment to one, a comparison with one, or one selected at the end.
BodyKinds == {"none", "set", "where", "select"}

Bodies == [kind : BodyKinds, param : 1..MaxParams]

Procedures == {p \in [decl : Declarations, body : Bodies] : p.body.param <= Len(p.decl) /\ (p.body.kind = "none" => p.body.param = 1)}

body_text(body) ==
    <<" ", "A", "S", " ">>
        \o (IF body.kind = "none" THEN <<"S", "E", "L", "E", "C", "T", " ", "1">>
            ELSE IF body.kind = "set" THEN <<"S", "E", "T", " ", "@">> \o ParamNames[body.param] \o <<" ", "=", " ", "1">>
            ELSE IF body.kind = "where" THEN <<"S", "E", "L", "E", "C", "T", " ", "x", " ", "F", "R", "O", "M", " ", "t", " ", "W", "H", "E", "R", "E", " ", "y", " ", "=", " ", "@">> \o ParamNames[body.param] \o <<" ", "A", "N", "D", " ", "z", " ", "=", " ", "1">>
            ELSE <<"S", "E", "L", "E", "C", "T", " ", "@">> \o ParamNames[body.param])

procedure_text(p) == sp_definition_text(p.decl) \o body_text(p.body)

\* \w of the pattern, over the characters of a procedure text.
NonWordChars == {" ", "\n", "@", "=", ",", "(", ")", "'"}

RECURSIVE sql_word_len(_, _)
sql_word_len(s, i) == IF i <= Len(s) /\ s[i] \notin NonWordChars THEN 1 + sql_word_len(s, i + 1) ELSE 0

\* param_pattern tried at an `@` of the body, at position at: `@(\w+)\s+`,
\* one type word, then `\s*(?:,|\s+|$|OUTPUT)` (no body has `=` or a
\* parenthesis after the type word).  end is the position after the match,
\* 0 when the pattern does not match there.
mention_match(text, at) ==
    LET name_end == at + 1 + sql_word_len(text, at + 1)
        type_start == skip_ws(text, name_end)
        type_end == type_start + sql_word_len(text, type_start)
        after == skip_ws(text, type_end)
        matched == name_end > at + 1 /\ type_start > name_end /\ type_end > type_start
    IN [name |-> SubSeq(text, at + 1, name_end - 1),
        type |-> SubSeq(text, type_start, type_end - 1),
        end |-> IF ~matched THEN 0
                ELSE IF after <= Len(text) /\ text[after] = "," THEN after + 1
                ELSE IF StartsWith(UpperText(SubSeq(text, after, Len(text))), OUTPUT) THEN after + Len(OUTPUT)
                ELSE IF after > type_end \/ type_end > Len(text) THEN after
                ELSE 0]

\* type_info["base_type"] of a type word of the body.
base_type_of(word) == IF UpperText(word) = <<"A", "N", "D">> THEN "AND" ELSE "WORD"

\* The param_info of the matches that start in the body.
body_matches(p) ==
    LET text == procedure_text(p)
        first == Len(sp_definition_text(p.decl)) + 1
        ats == {i \in first..Len(text) : text[i] = "@" /\ mention_match(text, i).end # 0}
    IN IF ats = {} THEN <<>>
       ELSE LET at == CHOOSE i \in ats : TRUE
                m == mention_match(text, at)
            IN <<[name |-> m.name,
                  type |-> base_type_of(m.type),
                  size |-> 0,
                  default |-> <<>>,
                  is_output |-> Contains(UpperText(take_chars(SubSeq(text, m.end, Len(text)), 20)), OUTPUT)]>>

\* The matches of the declaration list come first (a body holds no OUTPUT,
\* so is_output of a declared parameter is what it is without the body),
\* then the matches of the body, each appended to the list its is_output
\* selects.
analyze_procedure(p) ==
    LET declared == _analyze_sp_signature(p.decl)
        body == body_matches(p)
    IN [has_output_params |-> declared.has_output_params \/ \E i \in 1..Len(body) : body[i].is_output,
        output_params |-> declared.output_params \o SelectSeq(body, LAMBDA m : m.is_output),
        input_params |-> declared.input_params \o SelectSeq(body, LAMBDA m : ~m.is_output)]

SigBodyInit ==
    /\ u_in \in Procedures
    /\ u_pc = "definition"
    /\ u_out = <<>>
    /\ sp_name = <<>>
    /\ g_pc = "off"
    /\ queries = <<>>

\* signature = self._analyze_sp_signature(sp_definition)
AnalyzeProcedure ==
    /\ u_pc = "definition"
    /\ u_out' = analyze_procedure(u_in)
    /\ u_pc' = "analyzed"
    /\ UNCHANGED <<u_in, sp_name, g_pc, queries>>
    /\ UNCHANGED <<pool_vars, exec_vars, item_vars, batch_vars>>

SigBodyNext == AnalyzeProcedure

InitSigBody == SigBodyInit /\ PoolOff /\ ExecOff /\ ItemOff /\ BatchOff

SpecSigBody == InitSigBody /\ [][SigBodyNext]_vars

(***************************************************************************)
(* The type of the variable declared for an output parameter:              *)
(* _parse_parameter_type, the param_info dict and _normalize_sql_type      *)
(* (sp_executor.py:136-146, 160-200, 214-218, 335-412).  A type is written *)
(* in upper case, as a base word and the arguments between its             *)
(* parentheses.                                                            *)
(***************************************************************************)
SimpleTypes ==
    {"INT", "BIGINT", "SMALLINT", "TINYINT", "BIT", "REAL", "MONEY", "SMALLMONEY", "DATETIME", "DATE",
     "UNIQUEIDENTIFIER", "TEXT", "NTEXT", "IMAGE", "TIMESTAMP", "ROWVERSION"}

DecimalTypes == {"DECIMAL", "NUMERIC"}

CharTypes == {"VARCHAR", "NVARCHAR", "CHAR", "NCHAR"}

BinaryTypes == {"VARBINARY", "BINARY"}

TimeTypes == {"DATETIME2", "TIME", "DATETIMEOFFSET"}

\* The type words of the inputs; XML is a type the table does not know.
BaseTypes == {"INT", "BIGINT", "BIT", "DATE", "DECIMAL", "NUMERIC", "VARCHAR", "NVARCHAR", "CHAR", "VARBINARY", "FLOAT", "DATETIME2", "XML"}

TypeArguments == {<<>>, <<"50">>, <<"MAX">>, <<"18", "2">>, <<"10", "0">>}

FullTypes == [base : BaseTypes, args : TypeArguments]

\* _parse_parameter_type(type_string)
type_info(full_type) ==
    [base_type |-> full_type.base,
     size |-> IF Len(full_type.args) = 1 THEN full_type.args[1] ELSE "None",
     precision |-> IF Len(full_type.args) = 2 THEN full_type.args[1] ELSE "None",
     scale |-> IF Len(full_type.args) = 2 THEN full_type.args[2] ELSE "None"]

\* The dict built for a match: the base type is stored under "type".
output_param_info(full_type) ==
    [type |-> type_info(full_type).base_type,
     full_type |-> full_type,
     size |-> type_info(full_type).size,
     precision |-> type_info(full_type).precision,
     scale |-> type_info(full_type).scale]

\* dict.get(key, default)
get(dict, key, default) == IF key \in DOMAIN dict THEN dict[key] ELSE default

\* Python truth of a size or precision.
Given(value) == value \notin {"None", "0"}

_normalize_sql_type(info) ==
    LET base_type == get(info, "base_type", "NVARCHAR")
        size == get(info, "size", "None")
        precision == get(info, "precision", "None")
        scale == get(info, "scale", "None")
        full_type == get(info, "full_type", [base |-> "", args |-> <<>>])
    IN IF full_type.args # <<>> THEN full_type
       ELSE IF base_type \in DecimalTypes
            THEN IF Given(precision) /\ scale # "None"
                 THEN [base |-> base_type, args |-> <<precision, scale>>]
                 ELSE [base |-> base_type, args |-> <<"18", "2">>]
       ELSE IF base_type \in CharTypes
            THEN IF Given(size) THEN [base |-> base_type, args |-> <<size>>]
                 ELSE IF base_type \in {"VARCHAR", "NVARCHAR"} THEN [base |-> base_type, args |-> <<"4000">>]
                 ELSE [base |-> base_type, args |-> <<"255">>]
       ELSE IF base_type \in BinaryTypes
            THEN IF Given(size) THEN [base |-> base_type, args |-> <<size>>]
                 ELSE [base |-> base_type, args |-> <<"8000">>]
       ELSE IF base_type = "FLOAT"
            THEN IF Given(precision) THEN [base |-> "FLOAT", args |-> <<precision>>]
                 ELSE [base |-> "FLOAT", args |-> <<>>]
       ELSE IF base_type \in TimeTypes
            THEN IF Given(precision) THEN [base |-> base_type, args |-> <<precision>>]
                 ELSE [base |-> base_type, args |-> <<"7">>]
       ELSE IF base_type \in SimpleTypes THEN [base |-> base_type, args |-> <<>>]
       ELSE [base |-> "NVARCHAR", args |-> <<"4000">>]

NormalizeInit ==
    /\ u_in \in FullTypes
    /\ u_pc = "signature"
    /\ u_out = <<>>
    /\ sp_name = <<>>
    /\ g_pc = "off"
    /\ queries = <<>>

\* param_type = self._normalize_sql_type(param);
\* output_declarations.append(f"DECLARE @{param_name} {param_type};")
DeclareOutputParam ==
    /\ u_pc = "signature"
    /\ u_out' = _normalize_sql_type(output_param_info(u_in))
    /\ u_pc' = "declared"
    /\ UNCHANGED <<u_in, sp_name, g_pc, queries>>
    /\ UNCHANGED <<pool_vars, exec_vars, item_vars, batch_vars>>

NormalizeNext == DeclareOutputParam

InitNormalize == NormalizeInit /\ PoolOff /\ ExecOff /\ ItemOff /\ BatchOff

SpecNormalize == InitNormalize /\ [][NormalizeNext]_vars

(***************************************************************************)
(* JsonProcessor._extract_with_patterns, the loop over json_patterns       *)
(* (json_processor.py:95-127), with what each pattern does to the text     *)
(* left to the environment.                                                *)
(***************************************************************************)
\* json_patterns has 14 entries; the model runs the loop over the first
\* MaxPatterns of them.
MaxPatterns == 3

\* What json.loads makes of the cleaned text of one match.
MatchKinds == {"parseable", "unparseable"}

MatchLists == UNION {[1..n -> MatchKinds] : n \in 0..2}

\* _safe_regex_finditer for one pattern: the list of matches, or
\* TimeoutError (the worker thread outlasts the join), or the exception the
\* worker caught: re.error, or another one (MemoryError).
PatternOutcomes ==
    [exc : {"none"}, matches : MatchLists]
        \cup [exc : {"TimeoutError", "re.error", "MemoryError"}, matches : {<<>>}]

NoJson == [pattern |-> 0, match |-> 0]

\* The first match of the list that json.loads accepts (0: none).
first_parseable(matches) ==
    IF \E j \in 1..Len(matches) : matches[j] = "parseable"
    THEN CHOOSE j \in 1..Len(matches) : matches[j] = "parseable" /\ \A k \in 1..(j - 1) : matches[k] # "parseable"
    ELSE 0

\* `except TimeoutError: continue` and `except re.error: continue`; any
\* other exception leaves _extract_with_patterns.
on_pattern_exception_abort(exc) == "raise"

on_pattern_exception(exc) == IF exc \in {"TimeoutError", "re.error"} THEN "continue" ELSE "raise"

PatternsInit ==
    /\ u_in \in [1..MaxPatterns -> PatternOutcomes]
    /\ u_pc = "loop"
    /\ u_out = [i |-> 1, tried |-> {}, result |-> NoJson]
    /\ sp_name = <<>>
    /\ g_pc = "off"
    /\ queries = <<>>

\* One pass of `for i, pattern in enumerate(self.json_patterns)`.
TryPattern ==
    /\ u_pc = "loop"
    /\ u_out.i <= MaxPatterns
    /\ LET o == u_in[u_out.i]
           j == first_parseable(o.matches)
           tried == u_out.tried \cup {u_out.i}
       IN IF o.exc # "none"
          THEN IF on_pattern_exception(o.exc) = "continue"
               THEN /\ u_out' = [u_out EXCEPT !.i = @ + 1, !.tried = tried]
                    /\ u_pc' = "loop"
               ELSE /\ u_out' = [u_out EXCEPT !.tried = tried]
                    /\ u_pc' = "raised"
          ELSE IF j # 0
               THEN /\ u_out' = [u_out EXCEPT !.tried = tried, !.result = [pattern |-> u_out.i, match |-> j]]
                    /\ u_pc' = "returned"
               ELSE /\ u_out' = [u_out EXCEPT !.i = @ + 1, !.tried = tried]
                    /\ u_pc' = "loop"
    /\ UNCHANGED <<u_in, sp_name, g_pc, queries>>
    /\ UNCHANGED <<pool_vars, exec_vars, item_vars, batch_vars>>

\* `return None` after the loop.
PatternsExhausted ==
    /\ u_pc = "loop"
    /\ u_out.i > MaxPatterns
    /\ u_pc' = "returned"
    /\ UNCHANGED <<u_in, u_out, sp_name, g_pc, queries>>
    /\ UNCHANGED <<pool_vars, exec_vars, item_vars, batch_vars>>

PatternsNext ==
    \/ TryPattern
    \/ PatternsExhausted

InitPatterns == PatternsInit /\ PoolOff /\ ExecOff /\ ItemOff /\ BatchOff

SpecPatterns == InitPatterns /\ [][PatternsNext]_vars

(***************************************************************************)
(* Claims about the connection pool (checked under SpecPool).              *)
(***************************************************************************)

\* A connection is held while the scope that checked it out is still open.
Held(c) == \E t \in Threads : t_pc[t] # "idle" /\ c \in t_out[t]

InPool(c) == \E i \in 1..Len(_pool) : _pool[i] = c

AllIdle == \A t \in Threads : t_pc[t] = "idle"

\* C1: in every reachable state, under every interleaving of scopes and
\* _create_connection calls, the created-connection counter is at most
\* pool_size + max_overflow.
C1_CounterAtMostCapacity == _created_connections <= Capacity

\* C1 witness: the counter stands at the ceiling and a _create_connection
\* call was refused with "Connection pool exhausted".
C1_Witness == \E t \in Threads : t_exc[t] = "exhausted" /\ _created_connections = Capacity

\* C2: every connection a finished scope had checked out is back in the
\* queue, or closed with the counter decremented exactly once for it.
C2_ReturnedOrClosedOnce == \A c \in ConnIds : (conn_state[c] # "none" /\ ~Held(c)) => ((InPool(c) /\ conn_state[c] = "open") \/ (conn_state[c] = "closed" /\ decrements[c] = 1))

\* C3: whenever no caller is inside a scope, no connection is in flight: the
\* created-connection counter equals the number of queued connections.
C3_IdleCounterEqualsQueue == AllIdle => _created_connections = Len(_pool)

(***************************************************************************)
(* Claims about execute_stored_procedure (checked under SpecExec).         *)
(***************************************************************************)

\* The category of what the database does at one execution, as the
\* executor's own classifier names the error the database layer raised.
Category(o) == _categorize_error(o)

Retryable(o) == o # Ok /\ Category(o) \in {"TIMEOUT", "CONNECTION"}

Permanent(o) == o # Ok /\ Category(o) \in {"PERMISSION", "SYNTAX"}

AnalysisOk == analysis.cls \in {"simple", "output"}

Done == e_pc = "done"

IsEnvelope(env) == "ExecutionStatus" \in DOMAIN env

HasErrorFields(env) == "ErrorCategory" \in DOMAIN env \/ "ErrorMessage" \in DOMAIN env

\* C4: a CONNECTION- or TIMEOUT-category failure at executions 1 and 2 and
\* a success at execution 3 give three attempts and a Success envelope
\* without error fields.
C4_RetryThenSuccess == (Done /\ AnalysisOk /\ Retryable(script[1]) /\ Retryable(script[2]) /\ script[3] = Ok) => (attempts = 3 /\ IsEnvelope(envelope) /\ envelope.ExecutionStatus = "Success" /\ ~HasErrorFields(envelope))

C6_RetriesExhausted == (Done /\ AnalysisOk /\ \A i \in 1..max_retries : Retryable(script[i])) => (IsEnvelope(envelope) /\ envelope.ExecutionStatus = "Error" /\ envelope.ErrorCategory = "MAX_RETRIES_EXCEEDED")

\* C7: no exception leaves execute_stored_procedure; what it returns is an
\* envelope whose ExecutionStatus is Success or Error, and it is Error
\* exactly when the envelope carries an ErrorCategory.
C7_AlwaysEnvelope == /\ e_pc # "propagated"
                     /\ Done => /\ IsEnvelope(envelope)
                                /\ envelope.ExecutionStatus \in {"Success", "Error"}
                                /\ (envelope.ExecutionStatus = "Error") <=> ("ErrorCategory" \in DOMAIN envelope)

\* C7 witness: the pool was exhausted (DatabaseConnectionError) and the
\* caller still got an Error envelope with a category.
C7_Witness == Done /\ attempts = 1 /\ script[1].cls = "Exception" /\ script[1].cues = {"connection"} /\ envelope.ExecutionStatus = "Error" /\ "ErrorCategory" \in DOMAIN envelope

(***************************************************************************)
(* Claims about the batch (checked under SpecBatch) and about one item     *)
(* (checked under SpecItem).                                               *)
(***************************************************************************)

\* The result of an item whose source fetch failed: get_sp_definition
\* returned None or raised.
FetchFailed(r) == r.error_message \in {"Could not retrieve SP definition", "fetch error"}

FetchFailures == {k \in 1..Len(results) : FetchFailed(results[k].result)}

BatchDone == b_pc = "done"

\* Every collected item either failed its source fetch or saved its
\* definition.
OthersSavedDefinition == \A k \in 1..Len(results) : FetchFailed(results[k].result) \/ results[k].result.definition_saved

\* C8: in parallel mode, when k items fail their source fetch and all
\* others save their definition, every item is attempted, one result per
\* item is collected, and the summary reports total_processed = N and
\* failed = k, whatever max_workers and the interleaving.
C8_ParallelIsolation == (BatchDone /\ parallel_processing /\ OthersSavedDefinition) => (/\ \A i \in Items : i_state[i] = "collected" /\ Cardinality({k \in 1..Len(results) : results[k].sp = i}) = 1
                                                                                       /\ Len(results) = N
                                                                                       /\ summary.total_processed = N
                                                                                       /\ summary.failed = Cardinality(FetchFailures))

\* C8 witness: three items on two workers, exactly one source fetch failed,
\* the two others saved their definition; the summary says total 3, failed 1.
C8_Witness == BatchDone /\ parallel_processing /\ N = 3 /\ max_workers = 2 /\ OthersSavedDefinition /\ Cardinality(FetchFailures) = 1 /\ summary.total_processed = 3 /\ summary.failed = 1

\* C9: a finished ProcessingResult has success true exactly when the
\* item's definition artifact was saved.
C9_SuccessIffDefinitionSaved == p_pc = "returned" => (result.success <=> "definition" \in files)

\* C10: in sequential mode with continue_on_error false nothing is
\* processed after the first failed item: only the last result of the list
\* can be a failed one.
C10_StopsAtFirstFailure == (BatchDone /\ ~parallel_processing /\ ~continue_on_error) => \A k \in 1..(Len(results) - 1) : results[k].result.success

\* C11: in parallel mode the number of items whose _process_single_sp is in
\* progress never exceeds min(max_workers, number of items).
C11_RunningAtMostWorkers == parallel_processing => Cardinality({i \in 1..Len(sp_list) : i_state[i] = "running"}) <= Min(max_workers, Len(sp_list))

\* C11 witness: three items on two workers, both workers busy and the third
\* item still waiting for one.
C11_Witness == parallel_processing /\ Len(sp_list) = 3 /\ max_workers = 2 /\ Cardinality({i \in 1..Len(sp_list) : i_state[i] = "running"}) = 2 /\ \E i \in 1..Len(sp_list) : i_state[i] = "pending"

(***************************************************************************)
(* Claims about the order of the steps of one item (checked under          *)
(* SpecFlow).                                                              *)
(***************************************************************************)

\* C12: within one item the source fetch completes before the signature
\* analysis starts, an execution against the database only follows a
\* signature analysis that succeeded, and no file write is submitted and no
\* artifact written before the executor has returned its envelope.
C12_ItemOrder == /\ e_pc # "idle" => (p_env.fetch = "ok" /\ p_pc \in {"execute", "save", "returned"})
                 /\ attempts > 0 => (analysis.cls \in {"simple", "output"} /\ e_pc # "analyze")
                 /\ (file_futures # <<>> \/ files # {}) => (e_pc = "done" /\ output_json = envelope.ExecutionStatus)

\* C12 witness: an item that was fetched, analysed, executed once and then
\* had its definition and output written.
C12_Witness == p_pc = "returned" /\ attempts = 1 /\ e_pc = "done" /\ {"definition", "output"} \subseteq files

\* C14: an item with a validation error (its name is rejected, so that the
\* fetch raises, or its source text is above the size ceiling) never reaches
\* the executor.
C14_ValidationShortCircuits == (p_env.fetch = "raise" \/ p_env.extract = "too_large") => (e_pc = "idle" /\ attempts = 0)

(***************************************************************************)
(* Claims about get_sp_definition (checked under SpecFetch).               *)
(***************************************************************************)

\* The names the claim speaks of: they contain ; -- /* or */, or they
\* contain xp_ and do not begin with [dbo].[xp_ .
Blacklisted(name) ==
    \/ Contains(name, <<";">>)
    \/ Contains(name, <<"-", "-">>)
    \/ Contains(name, <<"/", "*">>)
    \/ Contains(name, <<"*", "/">>)
    \/ (Contains(name, <<"x", "p", "_">>) /\ ~StartsWith(Lower(name), <<"Q", "x", "p", "_">>))

\* C13: for a blacklisted name get_sp_definition never issues the
\* object-definition query and never returns (a definition or null): the
\* call can only end by raising.
C13_BlacklistedNameRaises == Blacklisted(sp_name) => (queries = <<>> /\ g_pc \in {"start", "validate", "raised"})

\* C13 witness: the name */ was validated and the call has raised without a
\* query.
C13_Witness == sp_name = <<"*", "/">> /\ g_pc = "raised" /\ queries = <<>>

\* C15: preparing a connection string is idempotent: a string that was
\* prepared once is returned unmodified when it is prepared again.
C15_PrepareIdempotent == u_pc = "prepared_again" => u_out[2] = u_out[1]

C15_Witness ==
    /\ u_pc = "prepared_again"
    /\ u_in = <<"Integrated Security", "=", "true">>
    /\ u_out[1] = <<"DRIVER", "=", "{ODBC Driver 17 for SQL Server}", ";", "Trusted_Connection", "=", "yes", ";">>
    /\ u_out[2] = u_out[1]


\* C16: the signature analysis classifies a parameter as an output
\* parameter exactly when its own declaration carries the OUTPUT keyword.
C16_OutputIffDeclared ==
    u_pc = "analyzed" =>
        \A i \in 1..Len(u_in) :
            (\E k \in 1..Len(u_out.output_params) : u_out.output_params[k].name = ParamNames[i]) <=> u_in[i].out

\* C17: a JSON object literal passed with a trailing comma before its
\* closing brace is extracted as the object without the comma: for
\* EXEC [dbo].[X] '{"Id":1,}' the result parses to {"Id": 1}.
C17_TrailingCommaRepaired ==
    u_pc = "extracted" =>
        \A n \in 0..Len(u_in) :
            (/\ json_loads(<<"{">> \o SubSeq(u_in, 1, n) \o <<"}">>).ok
             /\ n < Len(u_in)
             /\ u_in[n + 1] = ","
             /\ \A k \in (n + 2)..Len(u_in) : u_in[k] = " ")
            => (/\ json_loads(u_out).ok
                /\ json_loads(u_out).val = json_loads(<<"{">> \o SubSeq(u_in, 1, n) \o <<"}">>).val)

C17_Witness ==
    /\ u_pc = "extracted"
    /\ u_in = <<"\"Id\"", ":", "1", ",">>
    /\ json_loads(u_out).ok
    /\ json_loads(u_out).val = Obj(<<[key |-> "\"Id\"", value |-> Num(1)]>>)

\* C18: the template created for an item is fixed by its kind: List gets
\* exactly PageNumber 1, PageSize 10, SearchTerm ""; Get gets only Id;
\* Save and Update get Id, UserId, BizUnit; Delete gets Id, UserId; and
\* this holds for every kind text the orchestrator treats as Get or List.
C18_TemplatePerKind ==
    (u_pc \in {"prepared", "templated"} /\ u_out.source \in {"template", "direct"}) =>
        LET kind == u_in.kind
            treated_as(K, name) == (u_out.source = "template" /\ KindUpper(kind) = K) \/ kind = name
        IN /\ treated_as("LIST", "List") => u_out.template = [PageNumber |-> 1, PageSize |-> 10, SearchTerm |-> ""]
           /\ treated_as("GET", "Get") => DOMAIN u_out.template = {"Id"}
           /\ kind \in {"Save", "Update"} => DOMAIN u_out.template = {"Id", "UserId", "BizUnit"}
           /\ kind = "Delete" => DOMAIN u_out.template = {"Id", "UserId"}

\* C19: get_connection never yields a dequeued connection that failed the
\* validity probe: that connection is closed and not put back, and the
\* caller's block runs on an open connection (the dequeued one when it
\* passed the probe, else a newly created one).
C19_NoInvalidYield ==
    \A t \in Threads :
        t_pc[t] = "body" =>
            /\ conn_state[t_conn[t]] = "open"
            /\ (t_deq[t] # NoConn /\ t_deq[t] # t_conn[t]) =>
                   /\ conn_state[t_deq[t]] = "closed"
                   /\ \A i \in 1..Len(_pool) : _pool[i] # t_deq[t]
                   /\ t_conn[t] > t_deq[t]

C19_Witness ==
    \E t \in Threads :
        /\ t_pc[t] = "body"
        /\ t_deq[t] # NoConn
        /\ t_deq[t] # t_conn[t]
        /\ conn_state[t_deq[t]] = "closed"
        /\ conn_state[t_conn[t]] = "open"

\* C20: execute_stored_procedure makes at most max_retries passes of its
\* loop, hence at most max_retries executions, and always ends by
\* returning an envelope.
C20_BoundedAndTerminates ==
    /\ [](attempt < max_retries /\ attempts <= attempt + 1)
    /\ <>(Done /\ IsEnvelope(envelope))

C20_Witness == Done /\ attempt = max_retries - 1 /\ IsEnvelope(envelope) /\ envelope.ExecutionStatus = "Error"

\* C27: under any interleaving of get_connection scopes the number of open
\* connections, queued or held, is at most pool_size + max_overflow.
OpenConnections == {c \in ConnIds : conn_state[c] = "open"}

C27_OpenAtMostCapacity == Cardinality(OpenConnections) <= Capacity

\* C28: the created-connection counter is never negative.
C28_CounterNonNegative == _created_connections >= 0

\* C29: a failed pyodbc.connect leaves the counter at the value it had
\* before the attempt: after a pre-population that stopped at a failed
\* connect the counter counts the queued connections only, and inside
\* get_connection the failing connect takes back the increment that
\* _create_connection made for it.
C29_FailedConnectRestoresCounter ==
    /\ (scopes = 0 /\ AllIdle) => _created_connections = Len(_pool)
    /\ [][\A t \in Threads :
            (t_pc[t] \in {"connect1", "connect2"} /\ t_pc'[t] = "except" /\ t_exc'[t] = "connect")
                => _created_connections' = _created_connections - 1]_vars

\* C30: the per-artifact flags of a ProcessingResult describe the right
\* artifact, for every kind: input_saved only if an input write was
\* submitted and succeeded, output_saved if and only if the output write
\* succeeded (writes that outlast the 30 s wait set aside).
C30_FlagsNameTheirArtifact ==
    p_pc = "returned" =>
        /\ result.input_saved => (\E k \in 1..Len(file_futures) : file_futures[k] = "input") /\ "input" \in files
        /\ result.output_saved => "output" \in files
        /\ ((\E k \in 1..Len(file_futures) : file_futures[k] = "output") /\ p_env.w["output"] = "saved") => result.output_saved

\* C24: an item whose kind is not Get or List is executed with the empty
\* payload {} whatever an extraction of its text would give, and no input
\* artifact is submitted or written for it.
C24_OtherKindsEmptyPayload ==
    ~IsGetOrList(p_kind) =>
        /\ p_pc \in {"execute", "save", "returned"} => (p_env.fetch = "ok" => input_json = "{}")
        /\ \A k \in 1..Len(file_futures) : file_futures[k] # "input"
        /\ "input" \notin files

C24_Witness ==
    /\ p_pc = "returned"
    /\ p_kind = "Save"
    /\ p_env.extract = "json"
    /\ input_json = "{}"
    /\ file_futures = <<"definition", "output">>
    /\ files = {"definition", "output"}

\* C21: an error raised by the driver or the connection layer during an
\* execution is classified by the cues of its message and the Error
\* envelope carries that category: timeout gives TIMEOUT, connection gives
\* CONNECTION, permission gives PERMISSION, syntax gives SYNTAX, no cue
\* gives DATABASE_ERROR or UNKNOWN.
ClaimedCategories(cues) ==
    IF "timeout" \in cues THEN {"TIMEOUT"}
    ELSE IF "connection" \in cues THEN {"CONNECTION"}
    ELSE IF "permission" \in cues THEN {"PERMISSION", "DATABASE_ERROR"}
    ELSE IF "syntax" \in cues THEN {"SYNTAX"}
    ELSE {"DATABASE_ERROR", "UNKNOWN"}

C21_CategoryFromCues ==
    (Done /\ attempts >= 1 /\ script[attempts] # Ok) =>
        /\ envelope.ExecutionStatus = "Error"
        /\ envelope.ErrorCategory \in ClaimedCategories(script[attempts].cues)

\* C22: the output-parameter strategy is used exactly when the signature
\* has an output parameter; under it ResultSets are all result sets but
\* the last, in driver order, and OutputParameters is the first row of the
\* last set.
C22_LastSetIsOutputRow ==
    (Done /\ attempts >= 1 /\ script[attempts] = Ok) =>
        IF analysis.cls = "output"
        THEN LET all_results == _process_all_result_sets(driver_sets + 1)
             IN /\ envelope.ResultSets = SubSeq(all_results, 1, driver_sets)
                /\ envelope.OutputParameters = all_results[driver_sets + 1].rows[1]
        ELSE /\ envelope.ResultSets = _process_all_result_sets(driver_sets)
             /\ envelope.OutputParameters = "None"

\* C23: the patterns are tried in their order and the first one with a
\* parseable match determines the result; a timeout or a pattern error on
\* a pattern only skips that pattern: the later patterns are still tried
\* and the extraction does not fail because of it.
Skippable(o) == o.exc \in {"TimeoutError", "re.error"}

Yields(o) == o.exc = "none" /\ first_parseable(o.matches) # 0

C23_TimeoutSkipsOnePattern ==
    /\ u_pc = "raised" => ~Skippable(u_in[u_out.i])
    /\ \A n \in 1..MaxPatterns :
        (/\ u_pc \in {"returned", "raised"}
         /\ Yields(u_in[n])
         /\ \A k \in 1..(n - 1) : Skippable(u_in[k]) \/ (u_in[k].exc = "none" /\ ~Yields(u_in[k])))
        => (/\ u_pc = "returned"
            /\ u_out.result = [pattern |-> n, match |-> first_parseable(u_in[n].matches)]
            /\ u_out.tried = 1..n)
    /\ (u_pc = "returned" /\ \A k \in 1..MaxPatterns : ~Yields(u_in[k])) => (u_out.result = NoJson /\ u_out.tried = 1..MaxPatterns)

C23_Witness ==
    /\ u_pc = "returned"
    /\ u_in[1].exc = "TimeoutError"
    /\ u_in[2].exc = "re.error"
    /\ u_in[3].matches = <<"unparseable", "parseable">>
    /\ u_out.result = [pattern |-> 3, match |-> 2]
    /\ u_out.tried = {1, 2, 3}

\* C25: in every signature produced by the analysis each parameter name
\* appears exactly once in input_params and output_params taken together,
\* also when the body mentions the name again.
Occurrences(params, name) == Cardinality({i \in 1..Len(params) : params[i].name = name})

C25_EachParameterOnce ==
    u_pc = "analyzed" =>
        \A i \in 1..Len(u_in.decl) :
            Occurrences(u_out.input_params, ParamNames[i]) + Occurrences(u_out.output_params, ParamNames[i]) = 1

\* C26: the variable declared for an output parameter has the type of the
\* normalization table for the parameter's analyzed base type: a simple type
\* written without arguments is declared as itself, DECIMAL and NUMERIC
\* carry their precision and scale, character and binary types their size
\* (MAX included).
C26_DeclaredTypeFollowsBaseType ==
    u_pc = "declared" =>
        /\ (u_in.base \in SimpleTypes /\ u_in.args = <<>>) => u_out = [base |-> u_in.base, args |-> <<>>]
        /\ (u_in.base \in DecimalTypes /\ Len(u_in.args) = 2) => u_out = u_in
        /\ (u_in.base \in CharTypes \cup BinaryTypes /\ Len(u_in.args) = 1) => u_out = u_in

====
